---- MODULE Spec2Model ----
(***************************************************************************)
(* Compound-document filters of recoll (src/filters/rcl*.py): the          *)
(* extraction session served to rclexecm (openfile / getnext / getipath /  *)
(* closefile), the CHM content discovery (topics catalog and link walk)    *)
(* and the GNU-info node path resolver.                                    *)
(*                                                                         *)
(* Byte strings are sequences of one-character strings.  All names used    *)
(* are ASCII, so that the str/bytes encode and decode steps of the filters *)
(* keep the character sequence.                                            *)
(***************************************************************************)
EXTENDS Integers, Sequences, FiniteSets, TLC

VARIABLES
    \* ---- extraction session (one extractor object and its container)
    kind,          \* which filter runs: "chm", "epub", "info", "ics", "zip", "tar", "rar", "war"
    source,        \* what the container lists (topics params, manifest, member names, info headers, ics blocks)
    store,         \* the live container: address -> "doc" (resolves and reads) or "missing"
    phase,         \* "unopened", "failed" (openfile returned False), "open", "closed" (closefile called by the transport), "dead" (exception escaped)
    handle,        \* TRUE while self.chm / self.book / self.zip / self.tar / self.rar is held
    contents,      \* self.contents (self.namen for tar)
    currentindex,  \* self.currentindex
    tarpos,        \* number of members already returned by self.tar.next() (war)
    call,          \* the last request served: [op, arg, held], held = the handle was held when it came
    ret,           \* what it returned: (ok, data, ipath, eof), or exc = TRUE when it raised
    log,           \* the returns of the getnext calls so far, in order
    released,      \* for each getnext call so far: did closefile run during it
    \* ---- CHM link walk (ChmWalker)
    home,          \* self.chm.home
    pages,         \* the container's pages: path -> links (hrefs in document order), or absent
    wstack,        \* the active ChmWalker objects, innermost last: [path, dir, next]
    wcontents,     \* the contents list shared by the walkers
    wentered,      \* for each path: how many walkers were constructed on it
    wphase,        \* "idle", "walking", "opened", "failed"
    \* ---- GNU-info splitter (InfoSimpleSplitter.splitinfo)
    headers,       \* the node header lines of the info stream: [Node, Up]
    listout1,      \* the (title, node) list splitinfo returns
    iphase,        \* "input", "done"
    \* ---- configuration and container attributes, fixed for a session
    catenate,      \* self.catenate (chmcatenate / epubcatenate)
    shape,         \* the markup of the sub-document stored at each address
    spine,         \* self.book.opf.spine.itemrefs, <<>> when the book has no spine
    sizes,         \* the declared size of each archive member (file_size / size)
    filestate,     \* the file named by params["filename"]: "ok", "nofile", "corrupt", "nohelper"
    \* ---- what the last handler call did besides returning
    effect,        \* [rclog, read]: it logged "too big"; it read the member's data
    \* ---- karaoke conversion (KarTextExtractor.html_text)
    kfile,         \* the file name given to html_text
    kevents,       \* the events of the midi stream: [type, data]
    kchardet,      \* has_chardet: the chardet module could be imported
    klocale,       \* what sys.getfilesystemencoding() answers, <<"None">> for None
    kdetect,       \* what the detector answered to each of the calls of kout.calls
    kout,          \* what html_text did: the encoding applied, the detector calls, the texts
    \* ---- text normalisation (rclCHM.fixencoding)
    etext,         \* the bytes given to fixencoding, as pieces: markup, bytes, newlines
    eout           \* what fixencoding did: [exc, charset, text]

sessVars == <<kind, source, store, phase, handle, contents, currentindex, tarpos,
              call, ret, log, released>>
walkVars == <<home, pages, wstack, wcontents, wentered, wphase>>
infoVars == <<headers, listout1, iphase>>
confVars == <<catenate, shape, spine, sizes, filestate>>
karVars == <<kfile, kevents, kchardet, klocale, kdetect, kout>>
encVars == <<etext, eout>>
vars == <<sessVars, walkVars, infoVars, confVars, effect, karVars, encVars>>

-----------------------------------------------------------------------------
(* Bounds of the model *)

\* longest topics catalog / manifest / member list / header list of a session
MaxIndex == 3
\* getnext calls explored after the stream has ended
MaxExtra == 2
\* most links on one page of a walked CHM
MaxLinks == 2
\* deepest nesting of ChmWalker objects explored
MaxDepth == 4
\* longest topics object of the catalogs with compound values
MaxCatalog == 2
\* longest CHM topics catalog
MaxTopics == 4
\* most header lines of an info stream given to splitinfo
MaxRecords == 3
\* most header lines of a stream whose nodes form one chain of Up links
MaxChain == 52
\* self.em.maxmembersize, the configured ceiling on the size of an archive member
maxmembersize == 2

-----------------------------------------------------------------------------
(* Byte-string helpers *)

RECURSIVE SeqsUpTo(_, _)
SeqsUpTo(S, n) ==
    IF n = 0 THEN {<<>>}
    ELSE LET shorter == SeqsUpTo(S, n - 1)
         IN shorter \cup {Append(s, x) : s \in {t \in shorter : Len(t) = n - 1}, x \in S}

Range(s) == {s[i] : i \in 1..Len(s)}
IsInjective(s) == \A i, j \in 1..Len(s) : s[i] = s[j] => i = j

\* s.find(c) # -1
Contains(s, c) == \E i \in 1..Len(s) : s[i] = c

RECURSIVE SplitFrom(_, _, _)
\* s.split(c): the fields of s between the occurrences of c
SplitFrom(s, c, cur) ==
    IF s = <<>> THEN <<cur>>
    ELSE IF Head(s) = c THEN <<cur>> \o SplitFrom(Tail(s), c, <<>>)
    ELSE SplitFrom(Tail(s), c, Append(cur, Head(s)))
Split(s, c) == SplitFrom(s, c, <<>>)

RECURSIVE StrOfNat(_)
\* str(index) for index >= 0
StrOfNat(n) ==
    LET d == <<"0", "1", "2", "3", "4", "5", "6", "7", "8", "9">>
    IN IF n < 10 THEN <<d[n + 1]>> ELSE Append(StrOfNat(n \div 10), d[(n % 10) + 1])

DigitVal(c) ==
    CASE c = "0" -> 0 [] c = "1" -> 1 [] c = "2" -> 2 [] c = "3" -> 3 [] c = "4" -> 4
      [] c = "5" -> 5 [] c = "6" -> 6 [] c = "7" -> 7 [] c = "8" -> 8 [] c = "9" -> 9
      [] OTHER -> -1

RECURSIVE StripLeft(_, _)
StripLeft(s, chars) ==
    IF s # <<>> /\ Head(s) \in chars THEN StripLeft(Tail(s), chars) ELSE s

RECURSIVE StripRight(_, _)
\* s.rstrip(chars): drops every trailing character that is one of chars
StripRight(s, chars) ==
    IF s # <<>> /\ s[Len(s)] \in chars THEN StripRight(SubSeq(s, 1, Len(s) - 1), chars) ELSE s

RECURSIVE DigitsVal(_, _)
DigitsVal(s, acc) ==
    IF s = <<>> THEN acc ELSE DigitsVal(Tail(s), 10 * acc + DigitVal(Head(s)))

\* int(b): surrounding blanks are dropped, one sign is allowed, then decimal digits;
\* anything else raises ValueError (ok = FALSE)
PyInt(b) ==
    LET t == StripRight(StripLeft(b, {" "}), {" "})
        signed == t # <<>> /\ Head(t) \in {"-", "+"}
        digs == IF signed THEN Tail(t) ELSE t
        good == digs # <<>> /\ \A i \in 1..Len(digs) : DigitVal(digs[i]) >= 0
    IN IF ~good THEN [ok |-> FALSE, val |-> 0]
       ELSE [ok |-> TRUE,
             val |-> IF signed /\ Head(t) = "-" THEN 0 - DigitsVal(digs, 0) ELSE DigitsVal(digs, 0)]

-----------------------------------------------------------------------------
(* The rclexecm protocol values and the container surface *)

noteof == "noteof"
eofnext == "eofnext"
eofnow == "eofnow"

\* a handler's return tuple (ok, data, ipath, eof)
Ret(ok, data, ipath, eof) ==
    [ok |-> ok, data |-> data, ipath |-> ipath, eof |-> eof, exc |-> FALSE]
\* the handler raised: the exception leaves the extractor
Raised == [ok |-> FALSE, data |-> <<>>, ipath |-> <<>>, eof |-> "none", exc |-> TRUE]
NoRet == [ok |-> FALSE, data |-> <<>>, ipath |-> <<>>, eof |-> "none", exc |-> FALSE]

\* the internal paths / member names / manifest ids of the containers explored
Addr == {<<"/", "a">>, <<"/", "b">>, <<"/", "c">>}
\* an address no container holds
Bogus == <<"/", "x">>

\* the markups a stored sub-document can have: a head and a body, a full html page
\* with a title, a page without head, a page without body
Shapes == {"full", "html", "nohead", "nobody"}
Doc(sh, path) ==
    CASE sh = "html" -> <<"<html>", "<head>", "<title>", "t", "</title>", "</head>", "<body>">>
                            \o path \o <<"</body>", "</html>">>
      [] sh = "nohead" -> <<"<body>">> \o path \o <<"</body>">>
      [] sh = "nobody" -> <<"<head>", "</head>">> \o path
      [] OTHER -> <<"<head>", "</head>", "<body>">> \o path \o <<"</body>">>

\* the bytes stored at an address
BytesOf(path) == IF path \in DOMAIN shape THEN Doc(shape[path], path) ELSE Doc("full", path)

\* position of the first / last occurrence of a tag in a document, 0 when absent
FirstTok(doc, tok) ==
    IF \E i \in 1..Len(doc) : doc[i] = tok
    THEN CHOOSE i \in 1..Len(doc) : doc[i] = tok /\ \A j \in 1..(i - 1) : doc[j] # tok
    ELSE 0
LastTok(doc, tok) ==
    IF \E i \in 1..Len(doc) : doc[i] = tok
    THEN CHOOSE i \in 1..Len(doc) : doc[i] = tok /\ \A j \in (i + 1)..Len(doc) : doc[j] # tok
    ELSE 0
\* a greedy search for open.*close over the whole document (re.DOTALL):
\* from the first open to the last close after it
Span(doc, open, close) ==
    LET f == FirstTok(doc, open)
        l == LastTok(doc, close)
    IN [found |-> f > 0 /\ l > f, from |-> f, to |-> l]

NoEffect == [rclog |-> FALSE, read |-> FALSE]

\* the effect of one handler call on the extractor, besides the tuple it returns
Same(r) ==
    [ret |-> r, handle |-> handle, contents |-> contents, currentindex |-> currentindex,
     tarpos |-> tarpos, closed |-> FALSE, rclog |-> FALSE, read |-> FALSE]

-----------------------------------------------------------------------------
(* rclchm.py: the CHM session *)

\* chmlib.chm_resolve_object through CHMFile.ResolveObject: the path resolves in
\* the loaded container; a closed CHMFile resolves nothing
ResolveObject(chm, path) == chm /\ path \in store

\* peekfile(chmfile, path, charset)
peekfile(chm, path) == ResolveObject(chm, path)

\* self._headtagre.sub(b'<meta name="rclaptg" content="chm"></head>', doc)
RECURSIVE HeadSub(_, _)
HeadSub(doc, meta) ==
    IF doc = <<>> THEN <<>>
    ELSE IF Head(doc) = "</head>" THEN <<meta, "</head>">> \o HeadSub(Tail(doc), meta)
    ELSE <<Head(doc)>> \o HeadSub(Tail(doc), meta)

\* urllib_unquote(value): every %xx escape becomes the character it stands for;
\* the escape explored is "%23", the fragment marker
urllib_unquote(value) == [i \in 1..Len(value) |-> IF value[i] = "%23" THEN "#" ELSE value[i]]

\* handle_starttag taking the last field of any compound value
ChmTopicsParser_handle_starttag_anyfields(cts, p) ==
    IF p.tag # "param" \/ p.name # <<"L", "o", "c", "a", "l">> \/ p.value = <<>> THEN cts
    ELSE LET ll == Split(urllib_unquote(p.value), ":")
             localpath == ll[Len(ll)]
         IN IF Len(localpath) # 0 /\ ~Contains(localpath, "#")
            THEN Append(cts, IF localpath[1] # "/" THEN <<"/">> \o localpath ELSE localpath)
            ELSE cts

\* ChmTopicsParser.handle_starttag(tag, attrs), p = [tag, name, value]:
\* the contents list after the tag
ChmTopicsParser_handle_starttag(cts, p) ==
    IF p.tag # "param" THEN cts
    ELSE IF p.name # <<"L", "o", "c", "a", "l">> \/ p.value = <<>> THEN cts
    ELSE LET value == urllib_unquote(p.value)
             ll == Split(value, ":")
             localpath ==
                 IF Len(ll) = 1 THEN value
                 ELSE IF Len(ll) = 4 /\ ll[4] # <<>> /\ ll[2] # <<>>
                      THEN (IF peekfile(TRUE, ll[4]) THEN ll[4] ELSE <<>>)
                 ELSE <<>>
         IN IF Len(localpath) # 0 /\ ~Contains(localpath, "#")
            THEN Append(cts, IF localpath[1] # "/" THEN <<"/">> \o localpath ELSE localpath)
            ELSE cts

RECURSIVE ChmTopicsParser_feed(_, _)
\* tp.feed(text): handle_starttag on every tag of the topics object, in order
ChmTopicsParser_feed(cts, params) ==
    IF params = <<>> THEN cts
    ELSE ChmTopicsParser_feed(ChmTopicsParser_handle_starttag(cts, Head(params)), Tail(params))

RECURSIVE Dedup(_, _, _)
\* rclCHM.openfile, "Eliminate duplicates but keep order": the loop over self.contents
Dedup(cts, u, ct) ==
    IF cts = <<>> THEN ct
    ELSE IF Head(cts) \notin u THEN Dedup(Tail(cts), u \cup {Head(cts)}, Append(ct, Head(cts)))
    ELSE Dedup(Tail(cts), u, ct)

NoDedup(cts) == cts
\* rclCHM.openfile: the contents list left by the de-duplication
EliminateDuplicates(cts) == Dedup(cts, {}, <<>>)

rclCHM_extractone_lateeof(path, norclaptag) ==
    LET iseof == IF currentindex >= Len(contents) THEN eofnext ELSE noteof
    IN IF ~ResolveObject(handle, path) THEN Ret(FALSE, <<>>, path, iseof)
       ELSE Ret(TRUE, IF norclaptag THEN BytesOf(path)
                      ELSE HeadSub(BytesOf(path), "<meta rclaptg chm>"), path, iseof)

\* rclCHM.extractone(path, norclaptag)
rclCHM_extractone(path, norclaptag) ==
    LET iseof == IF currentindex >= Len(contents) - 1 THEN eofnext ELSE noteof
    IN IF ~ResolveObject(handle, path) THEN Ret(FALSE, <<>>, path, iseof)
       ELSE LET doc == BytesOf(path)
            IN IF Len(doc) > 0
               THEN Ret(TRUE, IF norclaptag THEN doc ELSE HeadSub(doc, "<meta rclaptg chm>"),
                        path, iseof)
               ELSE Ret(FALSE, <<>>, path, iseof)

rclCHM_getipath_norclaptag(ipath) == Same(rclCHM_extractone(ipath, TRUE))
\* rclCHM.getipath(params)
rclCHM_getipath(ipath) == Same(rclCHM_extractone(ipath, FALSE))

\* self.chm.title
ChmTitle == <<"T">>

\* re.sub(rb"<title.*</title>", b"<title>" + title + b"</title>", doc, count)
TitleSub(doc, title) ==
    LET m == Span(doc, "<title>", "</title>")
    IN IF m.found
       THEN SubSeq(doc, 1, m.from - 1) \o <<"<title>">> \o title \o <<"</title>">>
                \o SubSeq(doc, m.to + 1, Len(doc))
       ELSE doc

RECURSIVE DumpLoop(_, _, _)
\* rclCHM.dumpall(): the loop over self.contents, from the state (first, alltxt)
DumpLoop(cts, first, alltxt) ==
    IF cts = <<>> THEN alltxt
    ELSE LET r == rclCHM_extractone(Head(cts), TRUE)
             doc == r.data
             headmatch == first /\ Span(doc, "<head>", "</head>").found
             body == Span(doc, "<body>", "</body>")
             withhead == IF headmatch THEN alltxt \o TitleSub(doc, ChmTitle) \o <<"<body>">>
                         ELSE alltxt
             withbody == IF body.found THEN withhead \o SubSeq(doc, body.from + 1, body.to - 1)
                         ELSE withhead
         IN IF ~r.ok THEN DumpLoop(Tail(cts), first, alltxt)
            ELSE DumpLoop(Tail(cts), first /\ ~headmatch, withbody)

\* rclCHM.dumpall()
rclCHM_dumpall == DumpLoop(contents, TRUE, <<>>) \o <<"</body>", "</html>">>

\* rclCHM.getnext(params), chmcatenate set
rclCHM_getnext_catenate ==
    LET alltxt == rclCHM_dumpall
    IN IF alltxt # <<>>
       THEN [Same(Ret(TRUE, alltxt, <<>>, eofnext)) EXCEPT !.handle = FALSE, !.closed = TRUE]
       ELSE [Same(Ret(FALSE, <<>>, <<>>, eofnow)) EXCEPT !.handle = FALSE, !.closed = TRUE]

rclCHM_getnext_lazyclose ==
    IF currentindex = -1
    THEN [Same(Ret(TRUE, <<>>, <<>>, IF Len(contents) = 0 THEN eofnext ELSE noteof))
              EXCEPT !.currentindex = 0]
    ELSE IF currentindex >= Len(contents)
    THEN [Same(Ret(FALSE, <<>>, <<>>, eofnow)) EXCEPT !.handle = FALSE, !.closed = TRUE]
    ELSE [Same(rclCHM_extractone(contents[currentindex + 1], FALSE))
              EXCEPT !.currentindex = currentindex + 1]

\* rclCHM.getnext(params)
rclCHM_getnext ==
    IF catenate THEN rclCHM_getnext_catenate
    ELSE IF currentindex = -1
    THEN IF Len(contents) = 0
         THEN [Same(Ret(TRUE, <<>>, <<>>, eofnext)) EXCEPT
                   !.currentindex = 0, !.handle = FALSE, !.closed = TRUE]
         ELSE [Same(Ret(TRUE, <<>>, <<>>, noteof)) EXCEPT !.currentindex = 0]
    ELSE IF currentindex >= Len(contents)
    THEN [Same(Ret(FALSE, <<>>, <<>>, eofnow)) EXCEPT !.handle = FALSE, !.closed = TRUE]
    ELSE LET r == rclCHM_extractone(contents[currentindex + 1], FALSE)
         IN IF r.eof = eofnext \/ r.eof = eofnow
            THEN [Same(r) EXCEPT !.handle = FALSE, !.closed = TRUE,
                                 !.currentindex = currentindex + 1]
            ELSE [Same(r) EXCEPT !.currentindex = currentindex + 1]

-----------------------------------------------------------------------------
(* rclinfo.py: InfoSimpleSplitter.splitinfo *)

\* "if loop > 50"
MaxHops == 50

Top == <<"T", "o", "p">>
\* b" / "
TitleSep == <<" ", "/", " ">>
\* the value of the File: field of the header lines (infofile)
InfoFile == <<"f">>

\* the node text collected under the i-th header line
NodeBytes(i) == <<"n">> \o StrOfNat(i)

\* listout: one (nodename, node) pair per header line, by position
Listout(hs) == [i \in 1..Len(hs) |-> [nodename |-> hs[i].Node, node |-> NodeBytes(i)]]

RECURSIVE NodeDict(_)
\* node_dict after the scan: node_dict[nodename] = up, done for every header in turn
NodeDict(hs) ==
    IF hs = <<>> THEN <<>>
    ELSE LET h == hs[Len(hs)]
             rest == NodeDict(SubSeq(hs, 1, Len(hs) - 1))
         IN [n \in DOMAIN rest \cup {h.Node} |-> IF n = h.Node THEN h.Up ELSE rest[n]]

\* one pass of the loop with "if loop >= 50"
UpStepEarly(s, node_dict) ==
    IF s.done THEN s
    ELSE IF s.nodename = Top THEN [s EXCEPT !.done = TRUE]
    ELSE LET t == s.nodename \o TitleSep \o s.title
         IN IF s.nodename \notin DOMAIN node_dict
            THEN [s EXCEPT !.title = t, !.error = TRUE, !.done = TRUE]
            ELSE IF s.loop + 1 >= MaxHops
            THEN [s EXCEPT !.nodename = node_dict[s.nodename], !.title = t,
                           !.loop = s.loop + 1, !.error = TRUE, !.done = TRUE]
            ELSE [s EXCEPT !.nodename = node_dict[s.nodename], !.title = t,
                           !.loop = s.loop + 1]

\* one pass of the "while nodename != b'Top'" loop of splitinfo over the loop state
\* s: the test of the condition, then the body; done when the loop has been left
UpStep(s, node_dict) ==
    IF s.done THEN s
    ELSE IF s.nodename = Top THEN [s EXCEPT !.done = TRUE]
    ELSE LET t == s.nodename \o TitleSep \o s.title
         IN IF s.nodename \notin DOMAIN node_dict
            THEN [s EXCEPT !.title = t, !.error = TRUE, !.done = TRUE]
            ELSE IF s.loop + 1 > MaxHops
            THEN [s EXCEPT !.nodename = node_dict[s.nodename], !.title = t,
                           !.loop = s.loop + 1, !.error = TRUE, !.done = TRUE]
            ELSE [s EXCEPT !.nodename = node_dict[s.nodename], !.title = t,
                           !.loop = s.loop + 1]

RECURSIVE UpIterate(_, _, _)
\* n passes of the loop from the state s, stopping when the loop has been left
UpIterate(n, s, node_dict) ==
    IF n = 0 THEN s
    ELSE IF n = 1 THEN UpStep(s, node_dict)
    ELSE LET h == UpIterate(n \div 2, s, node_dict)
         IN IF h.done THEN h ELSE UpIterate(n - (n \div 2), h, node_dict)

\* the walk with "if loop > 50" leaving the loop without setting error
UpWalkLoopNoError(nodename, title, loop, node_dict) ==
    LET s == [nodename |-> nodename, title |-> title, loop |-> loop,
              error |-> FALSE, done |-> FALSE]
        w == UpIterate(MaxHops + 2 - loop, s, node_dict)
    IN [error |-> w.error /\ w.loop <= MaxHops, title |-> w.title, loop |-> w.loop]

\* the "while nodename != b'Top'" loop of splitinfo, entered with (nodename, title, loop):
\* the loop is left after MaxHops + 1 passes at the latest
UpWalk(nodename, title, loop, node_dict) ==
    LET s == [nodename |-> nodename, title |-> title, loop |-> loop,
              error |-> FALSE, done |-> FALSE]
        w == UpIterate(MaxHops + 2 - loop, s, node_dict)
    IN [error |-> w.error, title |-> w.title, loop |-> w.loop]

\* a title that leaves the File: name out
NodeTitleBare(title, infofile) == StripRight(title, {" ", "/"})

\* the title given to a node whose walk ended without error
NodeTitle(title, infofile) ==
    StripRight(IF title = <<>> THEN infofile ELSE infofile \o TitleSep \o title,
               {" ", "/"})

RECURSIVE ComputePathsAbort(_, _, _)
ComputePathsAbort(listout, node_dict, infofile) ==
    IF listout = <<>> THEN <<>>
    ELSE LET w == UpWalk(Head(listout).nodename, <<>>, 0, node_dict)
         IN IF w.error THEN <<>>
            ELSE <<[title |-> NodeTitle(w.title, infofile), node |-> Head(listout).node]>>
                 \o ComputePathsAbort(Tail(listout), node_dict, infofile)

RECURSIVE ComputePaths(_, _, _)
\* "Compute node paths": the loop over listout building listout1
ComputePaths(listout, node_dict, infofile) ==
    IF listout = <<>> THEN <<>>
    ELSE LET w == UpWalk(Head(listout).nodename, <<>>, 0, node_dict)
             rest == ComputePaths(Tail(listout), node_dict, infofile)
         IN IF w.error THEN rest
            ELSE <<[title |-> NodeTitle(w.title, infofile), node |-> Head(listout).node]>>
                 \o rest

\* splitinfo(filename, fin) on a stream whose header lines are hs
splitinfo(hs, infofile) == ComputePaths(Listout(hs), NodeDict(hs), infofile)

-----------------------------------------------------------------------------
(* rclinfo.py and rclics.py: the index-addressed sessions *)

RECURSIVE htmlescape(_)
\* rclexecm.htmlescape
htmlescape(b) ==
    IF b = <<>> THEN <<>>
    ELSE (CASE Head(b) = "&" -> <<"&", "a", "m", "p", ";">>
            [] Head(b) = "<" -> <<"&", "l", "t", ";">>
            [] Head(b) = ">" -> <<"&", "g", "t", ";">>
            [] OTHER -> <<Head(b)>>) \o htmlescape(Tail(b))

\* a Python list indexed with an int below its length: negative indexes count from the end
PyItem(list, index) == IF index >= 0 THEN list[index + 1] ELSE list[Len(list) + index + 1]
\* str(index)
PyStr(index) == IF index >= 0 THEN StrOfNat(index) ELSE <<"-">> \o StrOfNat(0 - index)

\* InfoExtractor.extractone(index)
InfoExtractor_extractone(index) ==
    IF index >= Len(contents) THEN Ret(FALSE, <<>>, <<>>, eofnext)
    ELSE IF index < 0 - Len(contents) THEN Raised
    ELSE LET nodename == htmlescape(PyItem(contents, index).title)
             docdata == <<"<html><head><title>">> \o nodename
                        \o <<"</title><meta rclaptg gnuinfo></head><body><pre>">>
                        \o htmlescape(PyItem(contents, index).node)
                        \o <<"</pre></body></html>">>
             iseof == IF currentindex >= Len(contents) - 1 THEN eofnext ELSE noteof
         IN Ret(TRUE, docdata, PyStr(index), iseof)

\* InfoExtractor.getipath(params)
InfoExtractor_getipath(ipath) ==
    LET index == PyInt(ipath)
    IN IF ~index.ok THEN Same(Ret(FALSE, <<>>, <<>>, eofnext))
       ELSE Same(InfoExtractor_extractone(index.val))

InfoExtractor_getnext_pastend ==
    IF currentindex = -1
    THEN [Same(Ret(TRUE, <<>>, <<>>, IF Len(contents) = 0 THEN eofnext ELSE noteof))
              EXCEPT !.currentindex = 0]
    ELSE IF currentindex >= Len(contents)
    THEN [Same(Ret(FALSE, <<>>, <<>>, eofnow)) EXCEPT !.currentindex = currentindex + 1]
    ELSE [Same(InfoExtractor_extractone(currentindex)) EXCEPT !.currentindex = currentindex + 1]

\* InfoExtractor.getnext(params)
InfoExtractor_getnext ==
    IF currentindex = -1
    THEN [Same(Ret(TRUE, <<>>, <<>>, IF Len(contents) = 0 THEN eofnext ELSE noteof))
              EXCEPT !.currentindex = 0]
    ELSE IF currentindex >= Len(contents) THEN Same(Ret(FALSE, <<>>, <<>>, eofnow))
    ELSE [Same(InfoExtractor_extractone(currentindex)) EXCEPT !.currentindex = currentindex + 1]

\* IcalExtractor.extractone(index)
IcalExtractor_extractone(index) ==
    IF index >= Len(contents) THEN Ret(FALSE, <<>>, <<>>, eofnext)
    ELSE IF index < 0 - Len(contents) THEN Raised
    ELSE LET iseof == IF currentindex >= Len(contents) - 1 THEN eofnext ELSE noteof
         IN Ret(TRUE, PyItem(contents, index), PyStr(index), iseof)

\* IcalExtractor.getipath(params)
IcalExtractor_getipath(ipath) ==
    LET index == IF ipath = <<>> THEN [ok |-> TRUE, val |-> 0] ELSE PyInt(ipath)
    IN IF ~index.ok THEN Same(Ret(FALSE, <<>>, <<>>, eofnext))
       ELSE Same(IcalExtractor_extractone(index.val))

\* IcalExtractor.getnext(params)
IcalExtractor_getnext ==
    IF currentindex = -1
    THEN [Same(Ret(TRUE, <<>>, <<>>, IF Len(contents) = 0 THEN eofnext ELSE noteof))
              EXCEPT !.currentindex = 0]
    ELSE IF currentindex >= Len(contents) THEN Same(Ret(FALSE, <<>>, <<>>, eofnow))
    ELSE [Same(IcalExtractor_extractone(currentindex)) EXCEPT !.currentindex = currentindex + 1]

-----------------------------------------------------------------------------
(* rclepub.py *)

xhtml == "application/xhtml+xml"

\* self.book.get_item(id): the manifest entry, looked up in memory
get_item(id) == \E i \in 1..Len(source) : source[i].id = id

\* self.book.read_item(item): the member bytes; raises once the book is closed or
\* when the archive does not hold the file
read_item_ok(id) == handle /\ id \in store

\* rclEPUB.extractone(id)
rclEPUB_extractone(id) ==
    LET iseof == IF currentindex >= Len(contents) - 1 THEN eofnext ELSE noteof
    IN IF get_item(id) /\ read_item_ok(id)
       THEN Ret(TRUE, HeadSub(BytesOf(id), "<meta rclaptg epub>"), id, iseof)
       ELSE Ret(FALSE, <<>>, id, iseof)

\* rclEPUB.getipath(params)
rclEPUB_getipath(ipath) == Same(rclEPUB_extractone(ipath))

\* rclEPUB._selfdoc(), with _docheader() as its data
rclEPUB_selfdoc ==
    IF Len(contents) = 0
    THEN [Same(Ret(TRUE, <<"<html><head>", "</head>">>, <<>>, eofnext)) EXCEPT
              !.currentindex = 0, !.handle = FALSE, !.closed = TRUE]
    ELSE [Same(Ret(TRUE, <<"<html><head>", "</head>">>, <<>>, noteof)) EXCEPT
              !.currentindex = 0]

\* rclEPUB._docheader(): the head built from the book's metadata
rclEPUB_docheader == <<"<html><head>", "</head>">>

\* the manifest entry of an id
ManifestItem(id) == source[CHOOSE i \in 1..Len(source) : source[i].id = id]

\* rclEPUB._catbodies(): the ids walked, from the spine when there is one, else the manifest
CatIds == IF spine # <<>> THEN spine ELSE [i \in 1..Len(source) |-> source[i].id]

\* the three re.sub calls of _catbodies on one document: <html ... <body> removed once
\* (greedy), every </body> and </html> removed
StripWrappers(doc) ==
    LET m == Span(doc, "<html>", "<body>")
        inner == IF m.found THEN SubSeq(doc, 1, m.from - 1) \o SubSeq(doc, m.to + 1, Len(doc))
                 ELSE doc
    IN SelectSeq(inner, LAMBDA t : t # "</body>" /\ t # "</html>")

RECURSIVE CatLoop(_, _)
\* rclEPUB._catbodies(): the loop over ids; read_item raising leaves the method
CatLoop(ids, data) ==
    IF ids = <<>> THEN [exc |-> FALSE, data |-> data]
    ELSE IF ~get_item(Head(ids)) \/ ManifestItem(Head(ids)).media_type # xhtml
         THEN CatLoop(Tail(ids), data)
    ELSE IF ~read_item_ok(Head(ids)) THEN [exc |-> TRUE, data |-> <<>>]
    ELSE CatLoop(Tail(ids), data \o StripWrappers(BytesOf(Head(ids))))

\* rclEPUB._catbodies()
rclEPUB_catbodies ==
    LET r == CatLoop(CatIds, <<"<body>">>)
    IN IF r.exc THEN r ELSE [r EXCEPT !.data = r.data \o <<"</body>", "</html>">>]

\* rclEPUB.dumpall()
rclEPUB_dumpall ==
    LET r == rclEPUB_catbodies
    IN IF r.exc THEN r ELSE [r EXCEPT !.data = rclEPUB_docheader \o r.data]

\* rclEPUB.getnext(params), epubcatenate set
rclEPUB_getnext_catenate ==
    LET alltxt == rclEPUB_dumpall
    IN IF alltxt.exc THEN Same(Raised)
       ELSE IF alltxt.data # <<>>
       THEN [Same(Ret(TRUE, alltxt.data, <<>>, eofnext)) EXCEPT !.handle = FALSE, !.closed = TRUE]
       ELSE [Same(Ret(FALSE, <<>>, <<>>, eofnow)) EXCEPT !.handle = FALSE, !.closed = TRUE]

\* rclEPUB.getnext(params)
rclEPUB_getnext ==
    IF catenate THEN rclEPUB_getnext_catenate
    ELSE IF currentindex = -1 THEN rclEPUB_selfdoc
    ELSE IF currentindex >= Len(contents)
    THEN [Same(Ret(FALSE, <<>>, <<>>, eofnow)) EXCEPT !.handle = FALSE, !.closed = TRUE]
    ELSE LET r == rclEPUB_extractone(contents[currentindex + 1])
         IN IF r.eof = eofnext \/ r.eof = eofnow
            THEN [Same(r) EXCEPT !.handle = FALSE, !.closed = TRUE,
                                 !.currentindex = currentindex + 1]
            ELSE [Same(r) EXCEPT !.currentindex = currentindex + 1]

RECURSIVE ManifestXhtml(_)
\* rclEPUB.openfile: the ids of the manifest items of type application/xhtml+xml
ManifestXhtml(manifest) ==
    IF manifest = <<>> THEN <<>>
    ELSE IF Head(manifest).media_type = xhtml
         THEN <<Head(manifest).id>> \o ManifestXhtml(Tail(manifest))
         ELSE ManifestXhtml(Tail(manifest))

-----------------------------------------------------------------------------
(* rclzip.py, rcltar.py, rclrar.py over archivextract.ArchiveExtractor *)

\* closefile() of the archive extractors: the handle is dropped (tar also empties namen)
Closefile(step) ==
    [step EXCEPT !.handle = FALSE, !.closed = TRUE,
                 !.contents = IF kind = "tar" THEN <<>> ELSE @]

ZipExtractor_extractone_ge(ipath) ==
    LET member == handle /\ ipath \in Range(source)
        toobig == member /\ sizes[ipath] >= maxmembersize
        ok == member /\ (toobig \/ ipath \in store)
        docdata == IF ok /\ ~toobig THEN BytesOf(ipath) ELSE <<>>
        did(step) == [step EXCEPT !.rclog = toobig, !.read = member /\ ~toobig]
    IN IF ~handle THEN Same(Raised)
       ELSE IF currentindex >= Len(source) - 1
            THEN Closefile(did(Same(Ret(ok, docdata, ipath, eofnext))))
            ELSE did(Same(Ret(ok, docdata, ipath, noteof)))

\* ZipExtractor.extractone(ipath)
ZipExtractor_extractone(ipath) ==
    LET member == handle /\ ipath \in Range(source)
        toobig == member /\ sizes[ipath] > maxmembersize
        ok == member /\ (toobig \/ ipath \in store)
        docdata == IF ok /\ ~toobig THEN BytesOf(ipath) ELSE <<>>
        did(step) == [step EXCEPT !.rclog = toobig, !.read = member /\ ~toobig]
    IN IF ~handle THEN Same(Raised)
       ELSE IF currentindex >= Len(source) - 1
            THEN Closefile(did(Same(Ret(ok, docdata, ipath, eofnext))))
            ELSE did(Same(Ret(ok, docdata, ipath, noteof)))

\* TarExtractor.extractone(ipath)
TarExtractor_extractone(ipath) ==
    LET member == handle /\ ipath \in Range(source)
        toobig == member /\ sizes[ipath] > maxmembersize
        ok == member /\ (toobig \/ ipath \in store)
        docdata == IF ok /\ ~toobig THEN BytesOf(ipath) ELSE <<>>
        iseof == IF currentindex >= Len(contents) - 1 THEN eofnext ELSE noteof
    IN [Same(Ret(ok, docdata, ipath, iseof)) EXCEPT !.rclog = toobig, !.read = member /\ ~toobig]

TarExtractor_getipath_seek(ipath) ==
    [TarExtractor_extractone(ipath) EXCEPT !.currentindex = 0]

\* TarExtractor.getipath(params)
TarExtractor_getipath(ipath) ==
    LET first == TarExtractor_extractone(ipath)
    IN IF first.ret.ok THEN first ELSE TarExtractor_extractone(first.ret.ipath)

\* RarExtractor.extractone(ipath)
RarExtractor_extractone(ipath) ==
    IF ~(handle /\ ipath \in Range(source)) THEN Same(Ret(TRUE, <<>>, ipath, noteof))
    ELSE LET toobig == sizes[ipath] > maxmembersize
             ok == toobig \/ ipath \in store
             docdata == IF ok /\ ~toobig THEN BytesOf(ipath) ELSE <<>>
             iseof == IF currentindex >= Len(source) - 1 THEN eofnext ELSE noteof
         IN [Same(Ret(ok, docdata, ipath, iseof)) EXCEPT !.rclog = toobig, !.read = ~toobig]

\* self.namelist() of the three archive extractors
namelist == IF kind = "tar" THEN contents ELSE source
\* zip and rar read it from the handle, which is None after closefile
namelist_ok == kind = "tar" \/ handle

\* self.extractone(ipath), dispatched on the extractor class
Archive_extractone(ipath) ==
    CASE kind = "zip" -> ZipExtractor_extractone(ipath)
      [] kind = "tar" -> TarExtractor_extractone(ipath)
      [] OTHER -> RarExtractor_extractone(ipath)

\* ArchiveExtractor.getipath(params)
ArchiveExtractor_getipath(ipath) == Archive_extractone(ipath)

\* ArchiveExtractor.getnext(params)
ArchiveExtractor_getnext ==
    IF ~namelist_ok THEN Same(Raised)
    ELSE IF currentindex = -1
    THEN IF Len(namelist) = 0
         THEN [Closefile(Same(Ret(TRUE, <<>>, <<>>, eofnext))) EXCEPT !.currentindex = 0]
         ELSE [Same(Ret(TRUE, <<>>, <<>>, noteof)) EXCEPT !.currentindex = 0]
    ELSE IF currentindex >= Len(namelist)
    THEN Closefile(Same(Ret(FALSE, <<>>, <<>>, eofnow)))
    ELSE LET r == Archive_extractone(namelist[currentindex + 1])
         IN IF r.ret.exc THEN r
            ELSE IF r.ret.eof = eofnext \/ r.ret.eof = eofnow
            THEN [Closefile(r) EXCEPT !.currentindex = currentindex + 1]
            ELSE [r EXCEPT !.currentindex = currentindex + 1]

-----------------------------------------------------------------------------
(* rclwar.py *)

\* WarExtractor.extractone(tarinfo)
WarExtractor_extractone(name) ==
    IF name \in store THEN Ret(TRUE, BytesOf(name), name, noteof)
    ELSE Ret(FALSE, <<>>, name, eofnow)

\* WarExtractor.getipath(params)
WarExtractor_getipath(ipath) ==
    IF ~(handle /\ ipath \in Range(source)) THEN Same(Ret(FALSE, <<>>, ipath, noteof))
    ELSE Same(WarExtractor_extractone(ipath))

\* WarExtractor.getnext(params)
WarExtractor_getnext ==
    IF currentindex = -1 THEN [Same(Ret(TRUE, <<>>, <<>>, noteof)) EXCEPT !.currentindex = 0]
    ELSE IF ~handle THEN Same(Raised)
    ELSE IF tarpos >= Len(source)
    THEN [Same(Ret(FALSE, <<>>, <<>>, eofnow)) EXCEPT !.handle = FALSE, !.closed = TRUE]
    ELSE LET r == WarExtractor_extractone(source[tarpos + 1])
         IN IF r.eof = eofnext \/ r.eof = eofnow
            THEN [Same(r) EXCEPT !.handle = FALSE, !.closed = TRUE, !.tarpos = tarpos + 1]
            ELSE [Same(r) EXCEPT !.tarpos = tarpos + 1]

-----------------------------------------------------------------------------
(* The containers explored *)

Kinds == {"chm", "epub", "info", "ics", "zip", "tar", "rar", "war"}
HasHandle == {"chm", "epub", "zip", "tar", "rar", "war"}
ByIndex == {"info", "ics"}

Local == <<"L", "o", "c", "a", "l">>
\* values of the Local params of the topics catalogs
TopicValues == {<<"a">>, <<"b">>, <<"/", "c">>}
TopicParams == {[tag |-> "param", name |-> Local, value |-> v] : v \in TopicValues}

Manifests ==
    {m \in SeqsUpTo([id : Addr, media_type : {xhtml, "image/png"}], MaxIndex) :
        \A i, j \in 1..Len(m) : m[i].id = m[j].id => i = j}

NameLists == {s \in SeqsUpTo(Addr, MaxIndex) : IsInjective(s)}

N1 == <<"N", "1">>
N2 == <<"N", "2">>
\* header lines of the info streams opened in a session
SessionHeaders ==
    {[Node |-> Top, Up |-> <<"(", "d", ")">>], [Node |-> N1, Up |-> Top],
     [Node |-> N2, Up |-> N1]}

\* the VEVENT/VTODO/VJOURNAL blocks ICalSimpleSplitter.splitcalendar returns
IcsBlocks(n) == [i \in 1..n |-> <<"V">> \o StrOfNat(i)]

Sources(k) ==
    CASE k = "chm" -> SeqsUpTo(TopicParams, MaxTopics)
      [] k = "epub" -> Manifests
      [] k = "info" -> SeqsUpTo(SessionHeaders, MaxIndex)
      [] k = "ics" -> {IcsBlocks(n) : n \in 0..MaxIndex}
      [] OTHER -> NameLists

\* the ipath values given to getipath
IpathArgs ==
    IF kind \in ByIndex THEN {StrOfNat(i) : i \in 0..MaxIndex} \cup {<<"x">>}
    ELSE Addr \cup {Bogus}

-----------------------------------------------------------------------------
(* The session: one action per handler of each extractor *)

WalkIdle ==
    /\ home = <<>> /\ pages = <<>> /\ wstack = <<>> /\ wcontents = <<>>
    /\ wentered = <<>> /\ wphase = "idle"
InfoIdle == headers = <<>> /\ listout1 = <<>> /\ iphase = "idle"
KarIdle ==
    /\ kfile = <<>> /\ kevents = <<>> /\ kchardet = FALSE /\ klocale = <<"utf-8">>
    /\ kdetect = <<>> /\ kout = <<>>
EncIdle == etext = <<>> /\ eout = <<>>
\* chmcatenate / epubcatenate unset, every sub-document a plain page, no spine
ConfIdle ==
    /\ catenate = FALSE /\ shape = [a \in Addr |-> "full"] /\ spine = <<>>
    /\ sizes = [a \in Addr |-> 0] /\ filestate = "ok" /\ effect = NoEffect
ConfPlain == ConfIdle /\ KarIdle /\ EncIdle
SessIdle ==
    /\ kind = "none" /\ source = <<>> /\ store = {} /\ phase = "idle" /\ handle = FALSE
    /\ contents = <<>> /\ currentindex = -1 /\ tarpos = 0
    /\ call = [op |-> "none", arg |-> <<>>, held |-> FALSE] /\ ret = NoRet /\ log = <<>> /\ released = <<>>

Init ==
    /\ kind \in Kinds
    /\ source \in Sources(kind)
    /\ store \in (IF kind \in ByIndex THEN {{}} ELSE SUBSET Addr)
    /\ phase = "unopened"
    /\ handle = FALSE
    /\ contents = <<>>
    /\ currentindex = -1
    /\ tarpos = 0
    /\ call = [op |-> "none", arg |-> <<>>, held |-> FALSE]
    /\ ret = NoRet
    /\ log = <<>>
    /\ released = <<>>
    /\ catenate \in (IF kind \in {"chm", "epub"} THEN BOOLEAN ELSE {FALSE})
    /\ shape = [a \in Addr |-> "full"]
    /\ spine = <<>>
    /\ sizes = [a \in Addr |-> 0]
    /\ filestate = "ok"
    /\ effect = NoEffect
    /\ KarIdle /\ EncIdle
    /\ WalkIdle /\ InfoIdle

\* a successful openfile(params) leaving self.contents = cts
Opened(k, cts) ==
    /\ phase = "unopened" /\ wphase = "idle"
    /\ phase' = "open" /\ handle' = (k \in HasHandle)
    /\ contents' = cts /\ currentindex' = -1 /\ tarpos' = 0
    /\ call' = [op |-> "openfile", arg |-> <<>>, held |-> FALSE] /\ ret' = NoRet
    /\ UNCHANGED <<kind, source, store, log, released, walkVars, infoVars, confVars, effect, karVars, encVars>>

\* openfile(params) returned False: the session stays short of "open", with
\* self.currentindex = -1 and an empty self.contents
OpenFailed ==
    /\ phase = "unopened" /\ wphase = "idle"
    /\ phase' = "failed" /\ handle' = FALSE
    /\ contents' = <<>> /\ currentindex' = -1
    /\ call' = [op |-> "openfile", arg |-> <<>>, held |-> FALSE] /\ ret' = NoRet
    /\ UNCHANGED <<kind, source, store, tarpos, log, released, walkVars, infoVars, confVars, effect, karVars, encVars>>

\* rclCHM.openfile(params), the container has a topics object: "LoadCHM failed" when
\* the file is missing or is not a CHM file
rclCHM_openfile ==
    /\ kind = "chm"
    /\ IF filestate = "ok"
       THEN Opened("chm", EliminateDuplicates(ChmTopicsParser_feed(<<>>, source)))
       ELSE OpenFailed
\* rclEPUB.openfile(params)
rclEPUB_openfile == kind = "epub" /\ Opened("epub", ManifestXhtml(source))
\* what "info --subnodes -o - -f file" writes to its stdout, as node headers; Popen
\* runs it with shell=True, so that a missing info program is the shell's error
\* (status 127, nothing on stdout) and no exception of Popen
infostream == IF filestate = "nohelper" THEN <<>> ELSE source
\* InfoExtractor.openfile(params): "is not a file", or the split of the info output
InfoExtractor_openfile ==
    /\ kind = "info"
    /\ IF filestate = "nofile"
       THEN OpenFailed
       ELSE Opened("info", splitinfo(infostream, InfoFile))
\* IcalExtractor.openfile(params), usemodule = "internal"
IcalExtractor_openfile == kind = "ics" /\ Opened("ics", source)
\* ZipExtractor.openfile(params): open(filename, "rb") or ZipFile(self.f) raising is
\* caught ("openfile: failed") and False returned
ZipExtractor_openfile ==
    /\ kind = "zip"
    /\ IF filestate = "ok" THEN Opened("zip", <<>>) ELSE OpenFailed
\* TarExtractor.openfile(params)
TarExtractor_openfile == kind = "tar" /\ Opened("tar", source)
\* RarExtractor.openfile(params)
RarExtractor_openfile == kind = "rar" /\ Opened("rar", <<>>)
\* WarExtractor.openfile(params)
WarExtractor_openfile == kind = "war" /\ Opened("war", <<>>)

\* the handler served the request (op, arg) with the effect step
Serve(k, op, arg, step) ==
    /\ kind = k /\ phase = "open"
    /\ call' = [op |-> op, arg |-> arg, held |-> (kind \in HasHandle => handle)]
    /\ ret' = step.ret
    /\ handle' = step.handle
    /\ contents' = step.contents
    /\ currentindex' = step.currentindex
    /\ tarpos' = step.tarpos
    /\ phase' = IF step.ret.exc THEN "dead" ELSE phase
    /\ log' = IF op = "getnext" THEN Append(log, step.ret) ELSE log
    /\ released' = IF op = "getnext" THEN Append(released, step.closed) ELSE released
    /\ effect' = [rclog |-> step.rclog, read |-> step.read]
    /\ UNCHANGED <<kind, source, store, walkVars, infoVars, confVars, karVars, encVars>>

\* the transport goes on reading a little after the stream has ended
MayGetNext == Len(log) < currentindex + tarpos + 1 + MaxExtra

CHM_getnext == MayGetNext /\ Serve("chm", "getnext", <<>>, rclCHM_getnext)
CHM_getipath == \E a \in IpathArgs : Serve("chm", "getipath", a, rclCHM_getipath(a))
EPUB_getnext == MayGetNext /\ Serve("epub", "getnext", <<>>, rclEPUB_getnext)
EPUB_getipath == \E a \in IpathArgs : Serve("epub", "getipath", a, rclEPUB_getipath(a))
Info_getnext == MayGetNext /\ Serve("info", "getnext", <<>>, InfoExtractor_getnext)
Info_getipath == \E a \in IpathArgs : Serve("info", "getipath", a, InfoExtractor_getipath(a))
Ical_getnext == MayGetNext /\ Serve("ics", "getnext", <<>>, IcalExtractor_getnext)
Ical_getipath == \E a \in IpathArgs : Serve("ics", "getipath", a, IcalExtractor_getipath(a))
Zip_getnext == MayGetNext /\ Serve("zip", "getnext", <<>>, ArchiveExtractor_getnext)
Zip_getipath == \E a \in IpathArgs : Serve("zip", "getipath", a, ArchiveExtractor_getipath(a))
Tar_getnext == MayGetNext /\ Serve("tar", "getnext", <<>>, ArchiveExtractor_getnext)
Tar_getipath == \E a \in IpathArgs : Serve("tar", "getipath", a, TarExtractor_getipath(a))
Rar_getnext == MayGetNext /\ Serve("rar", "getnext", <<>>, ArchiveExtractor_getnext)
Rar_getipath == \E a \in IpathArgs : Serve("rar", "getipath", a, ArchiveExtractor_getipath(a))
War_getnext == MayGetNext /\ Serve("war", "getnext", <<>>, WarExtractor_getnext)
War_getipath == \E a \in IpathArgs : Serve("war", "getipath", a, WarExtractor_getipath(a))

\* the transport's close(): closefile() of the extractor, after which it is not called again
closefile ==
    /\ kind \in HasHandle /\ phase = "open"
    /\ phase' = "closed"
    /\ handle' = FALSE
    /\ contents' = IF kind = "tar" THEN <<>> ELSE contents
    /\ call' = [op |-> "closefile", arg |-> <<>>, held |-> handle] /\ ret' = NoRet
    /\ UNCHANGED <<kind, source, store, currentindex, tarpos, log, released, walkVars, infoVars, confVars, effect, karVars, encVars>>

Next ==
    \/ rclCHM_openfile \/ CHM_getnext \/ CHM_getipath
    \/ rclEPUB_openfile \/ EPUB_getnext \/ EPUB_getipath
    \/ InfoExtractor_openfile \/ Info_getnext \/ Info_getipath
    \/ IcalExtractor_openfile \/ Ical_getnext \/ Ical_getipath
    \/ ZipExtractor_openfile \/ Zip_getnext \/ Zip_getipath
    \/ TarExtractor_openfile \/ Tar_getnext \/ Tar_getipath
    \/ RarExtractor_openfile \/ Rar_getnext \/ Rar_getipath
    \/ WarExtractor_openfile \/ War_getnext \/ War_getipath
    \/ closefile

Spec == Init /\ [][Next]_vars

\* the spines of the books explored: none, the manifest backwards, the same with
\* an id the manifest does not list
RECURSIVE Reverse(_)
Reverse(s) == IF s = <<>> THEN <<>> ELSE Append(Reverse(Tail(s)), Head(s))
Spines(manifest) ==
    LET ids == [i \in 1..Len(manifest) |-> manifest[i].id]
    IN {<<>>, Reverse(ids), Reverse(ids) \o <<Bogus>>}

\* the topics catalogs of the catenated CHM files
CatTopics == {[i \in 1..Len(n) |-> [tag |-> "param", name |-> Local, value |-> n[i]]] : n \in NameLists}

\* a session with chmcatenate / epubcatenate set; an address with the markup
\* "absent" is not stored in the container
InitCat ==
    /\ kind \in {"chm", "epub"}
    /\ source \in (IF kind = "chm" THEN CatTopics ELSE Manifests)
    /\ shape \in [Addr -> Shapes \cup {"absent"}]
    /\ store = {a \in Addr : shape[a] # "absent"}
    /\ spine \in (IF kind = "chm" THEN {<<>>} ELSE Spines(source))
    /\ catenate = TRUE /\ sizes = [a \in Addr |-> 0] /\ filestate = "ok" /\ effect = NoEffect
    /\ KarIdle /\ EncIdle
    /\ phase = "unopened" /\ handle = FALSE
    /\ contents = <<>> /\ currentindex = -1 /\ tarpos = 0
    /\ call = [op |-> "none", arg |-> <<>>, held |-> FALSE] /\ ret = NoRet
    /\ log = <<>> /\ released = <<>>
    /\ WalkIdle /\ InfoIdle

NextCat ==
    \/ rclCHM_openfile \/ CHM_getnext \/ CHM_getipath
    \/ rclEPUB_openfile \/ EPUB_getnext \/ EPUB_getipath
    \/ closefile

SpecCat == InitCat /\ [][NextCat]_vars

\* the declared sizes of the members explored: under, at and over the ceiling
MemberSizes == {maxmembersize - 1, maxmembersize, maxmembersize + 1}

\* a zip, tar or rar session over members of any declared size
InitSize ==
    /\ kind \in {"zip", "tar", "rar"}
    /\ source \in NameLists
    /\ store \in SUBSET Addr
    /\ sizes \in [Addr -> MemberSizes]
    /\ catenate = FALSE /\ shape = [a \in Addr |-> "full"] /\ spine = <<>>
    /\ filestate = "ok" /\ effect = NoEffect /\ KarIdle /\ EncIdle
    /\ phase = "unopened" /\ handle = FALSE
    /\ contents = <<>> /\ currentindex = -1 /\ tarpos = 0
    /\ call = [op |-> "none", arg |-> <<>>, held |-> FALSE] /\ ret = NoRet
    /\ log = <<>> /\ released = <<>>
    /\ WalkIdle /\ InfoIdle

NextSize ==
    \/ ZipExtractor_openfile \/ Zip_getnext \/ Zip_getipath
    \/ TarExtractor_openfile \/ Tar_getnext \/ Tar_getipath
    \/ RarExtractor_openfile \/ Rar_getnext \/ Rar_getipath
    \/ closefile

SpecSize == InitSize /\ [][NextSize]_vars

\* a war or chm session over members of any declared size
InitSizeOther ==
    /\ kind \in {"war", "chm"}
    /\ source \in (IF kind = "chm" THEN SeqsUpTo(TopicParams, MaxCatalog) ELSE NameLists)
    /\ store \in SUBSET Addr
    /\ sizes \in [Addr -> MemberSizes]
    /\ catenate = FALSE /\ shape = [a \in Addr |-> "full"] /\ spine = <<>>
    /\ filestate = "ok" /\ effect = NoEffect /\ KarIdle /\ EncIdle
    /\ phase = "unopened" /\ handle = FALSE
    /\ contents = <<>> /\ currentindex = -1 /\ tarpos = 0
    /\ call = [op |-> "none", arg |-> <<>>, held |-> FALSE] /\ ret = NoRet
    /\ log = <<>> /\ released = <<>>
    /\ WalkIdle /\ InfoIdle

NextSizeOther ==
    \/ WarExtractor_openfile \/ War_getnext \/ War_getipath
    \/ rclCHM_openfile \/ CHM_getnext \/ CHM_getipath
    \/ closefile

SpecSizeOther == InitSizeOther /\ [][NextSizeOther]_vars

\* the ipath values given to the getipath of the index-addressed sessions: the decimal
\* indexes, and signed, padded, zero-filled, empty and non-numeric values
NumericArgs ==
    {StrOfNat(i) : i \in 0..MaxIndex}
        \cup {<<"-", "1">>, <<"-", "9">>, <<"+", "1">>, <<" ", "1">>, <<"0", "1">>, <<>>, <<"x">>}

Info_getipath_numeric ==
    /\ kind = "info"
    /\ \E a \in NumericArgs : Serve("info", "getipath", a, InfoExtractor_getipath(a))
Ical_getipath_numeric ==
    /\ kind = "ics"
    /\ \E a \in NumericArgs : Serve("ics", "getipath", a, IcalExtractor_getipath(a))

\* an info or ics session that is asked for any ipath
InitIndex ==
    /\ kind \in ByIndex
    /\ source \in Sources(kind)
    /\ store = {}
    /\ ConfPlain
    /\ phase = "unopened" /\ handle = FALSE
    /\ contents = <<>> /\ currentindex = -1 /\ tarpos = 0
    /\ call = [op |-> "none", arg |-> <<>>, held |-> FALSE] /\ ret = NoRet
    /\ log = <<>> /\ released = <<>>
    /\ WalkIdle /\ InfoIdle

NextIndex ==
    \/ InfoExtractor_openfile \/ Info_getnext \/ Info_getipath_numeric
    \/ IcalExtractor_openfile \/ Ical_getnext \/ Ical_getipath_numeric

SpecIndex == InitIndex /\ [][NextIndex]_vars

-----------------------------------------------------------------------------
(* rclchm.py: ChmWalker, the link walk of a CHM without topics *)

RECURSIVE JoinWith(_, _)
\* sep.join(comps)
JoinWith(comps, sep) ==
    IF comps = <<>> THEN <<>>
    ELSE IF Len(comps) = 1 THEN comps[1]
    ELSE comps[1] \o sep \o JoinWith(Tail(comps), sep)

RECURSIVE NormComps(_, _, _)
\* the loop of posixpath.normpath over the components of the path
NormComps(comps, new_comps, initial_slashes) ==
    IF comps = <<>> THEN new_comps
    ELSE LET comp == Head(comps)
         IN IF comp = <<>> \/ comp = <<".">> THEN NormComps(Tail(comps), new_comps, initial_slashes)
            ELSE IF comp # <<".", ".">>
                    \/ (initial_slashes = 0 /\ new_comps = <<>>)
                    \/ (new_comps # <<>> /\ new_comps[Len(new_comps)] = <<".", ".">>)
            THEN NormComps(Tail(comps), Append(new_comps, comp), initial_slashes)
            ELSE IF new_comps # <<>>
            THEN NormComps(Tail(comps), SubSeq(new_comps, 1, Len(new_comps) - 1), initial_slashes)
            ELSE NormComps(Tail(comps), new_comps, initial_slashes)

\* posixpath.normpath(path)
normpath(path) ==
    IF path = <<>> THEN <<".">>
    ELSE LET initial_slashes ==
                 IF path[1] # "/" THEN 0
                 ELSE IF Len(path) >= 2 /\ path[2] = "/" /\ ~(Len(path) >= 3 /\ path[3] = "/")
                 THEN 2 ELSE 1
             body == JoinWith(NormComps(Split(path, "/"), <<>>, initial_slashes), <<"/">>)
             res == [i \in 1..initial_slashes |-> "/"] \o body
         IN IF res = <<>> THEN <<".">> ELSE res

\* posixpath.dirname(p)
dirname(p) ==
    LET slashes == {i \in 1..Len(p) : p[i] = "/"}
        i == IF slashes = {} THEN 0 ELSE CHOOSE k \in slashes : \A m \in slashes : m <= k
        head == SubSeq(p, 1, i)
    IN IF head # <<>> /\ \E k \in 1..Len(head) : head[k] # "/"
       THEN StripRight(head, {"/"}) ELSE head

\* posixpath.join(a, b)
pathjoin(a, b) ==
    IF b # <<>> /\ b[1] = "/" THEN b
    ELSE IF a = <<>> \/ a[Len(a)] = "/" THEN a \o b
    ELSE a \o <<"/">> \o b

\* getfile(chmfile, path) returned text: the path resolves and is retrieved
getfile_ok(path) == ResolveObject(TRUE, path)

\* urlparse(href) of the hrefs explored: [scheme, path]
\* ChmWalker.handle_starttag(tag, attrs), first half: the path kept from the href
WalkerHrefPath(href) ==
    IF href.scheme = <<>>
    THEN LET lpath == Split(href.path, ":")
         IN IF Len(lpath) = 3
            THEN (IF peekfile(TRUE, lpath[3]) THEN lpath[3] ELSE <<>>)
            ELSE IF Len(lpath) = 1 THEN lpath[1]
            ELSE <<>>
    ELSE <<>>

\* ChmWalker.handle_starttag, second half: the normalized path of the link
WalkerNpath(dir, path) ==
    IF path[1] = "/" THEN normpath(path) ELSE normpath(pathjoin(dir, path))

WalkerVisitedSelfOnly(npath, cts, frame) == npath = frame.path
\* "if not npath in self.contents"
WalkerVisited(npath, cts, frame) == npath \in Range(cts)

\* the hrefs found on the pages of the walked containers
WalkHrefs ==
    {[scheme |-> <<>>, path |-> q] : q \in {<<"/", "h">>, <<"/", "p">>, <<"p">>, <<"q">>}}
WalkPaths == {<<"/", "h">>, <<"/", "p">>}
WalkPages ==
    {[links |-> l, parses |-> TRUE] : l \in SeqsUpTo(WalkHrefs, MaxLinks)}
        \cup {[links |-> <<>>, parses |-> FALSE]}
WalkHomes == {<<>>, <<"/", "h">>, <<"h">>}

\* rclCHM.openfile(params) with no topics object: the file is loaded, with its home
\* and its member pages, and the walk is started, up to walker.feed(text)
WalkStart(h, d, pg) ==
    /\ kind = "chm" /\ phase = "unopened" /\ wphase = "idle" /\ source = <<>>
    /\ filestate = "ok"
    /\ LET nhome == IF h # <<>> /\ h[1] # "/" THEN <<"/">> \o h ELSE h
           path == normpath(h)
       IN /\ home' = h /\ pages' = pg /\ store' = d
           /\ IF h = <<>> \/ nhome \notin d
              THEN /\ wphase' = "failed" /\ handle' = TRUE
                   /\ UNCHANGED <<phase, wstack, wcontents, wentered>>
              ELSE /\ wcontents' = <<path>>
                   /\ wentered' = [p \in {path} |-> 1]
                   /\ handle' = TRUE
                   /\ IF pg[nhome].parses
                      THEN /\ wstack' = <<[path |-> path, dir |-> dirname(path),
                                           links |-> pg[nhome].links]>>
                           /\ wphase' = "walking" /\ UNCHANGED phase
                      ELSE /\ wstack' = <<>> /\ wphase' = "raised" /\ phase' = "dead"
    /\ call' = [op |-> "openfile", arg |-> <<>>, held |-> FALSE]
    /\ UNCHANGED <<kind, source, contents, currentindex, tarpos, ret, log, released,
                   infoVars, confVars, effect, karVars, encVars>>

\* the same on any of the small containers: a home, the stored pages and their links
rclCHM_openfile_walk ==
    /\ wphase = "idle"
    /\ \E h \in WalkHomes, d \in SUBSET WalkPaths : \E pg \in [d -> WalkPages] :
          WalkStart(h, d, pg)

\* the exception of a nested walker ends the tags of the walker that made it
ChmWalker_except_propagate(rest) == [rest EXCEPT ![Len(rest)].links = <<>>]
\* "except: pass": fixencoding or feed of the nested walker raised, the walker that
\* made it goes on with rest, its stack with the tag of the link consumed
ChmWalker_except(rest) == rest

\* ChmWalker.handle_starttag(tag, attrs) on the next <a href> of the innermost walker;
\* path is the path kept from the href, npath its normalized form
ChmWalker_handle_starttag ==
    /\ wphase = "walking" /\ wstack # <<>> /\ wstack[Len(wstack)].links # <<>>
    /\ \E frame \in {wstack[Len(wstack)]} :
       \E path \in {WalkerHrefPath(Head(frame.links))} :
       \E npath \in {IF path = <<>> THEN <<>> ELSE WalkerNpath(frame.dir, path)} :
       \E rest \in {[wstack EXCEPT ![Len(wstack)].links = Tail(frame.links)]} :
          IF path # <<>> /\ ~WalkerVisited(npath, wcontents, frame) /\ getfile_ok(npath)
          THEN /\ wcontents' = Append(wcontents, npath)
               /\ wentered' = [p \in DOMAIN wentered \cup {npath} |->
                                  IF p = npath
                                  THEN (IF p \in DOMAIN wentered THEN wentered[p] + 1 ELSE 1)
                                  ELSE wentered[p]]
               /\ IF ~pages[npath].parses THEN wstack' = ChmWalker_except(rest) /\ UNCHANGED wphase
                  ELSE IF Len(wstack) >= MaxDepth
                  THEN wstack' = rest /\ wphase' = "overflow"
                  ELSE /\ wstack' = Append(rest, [path |-> npath, dir |-> dirname(npath),
                                                  links |-> pages[npath].links])
                       /\ UNCHANGED wphase
          ELSE /\ wstack' = rest
               /\ UNCHANGED <<wcontents, wentered, wphase>>
    /\ UNCHANGED <<sessVars, home, pages, infoVars, confVars, effect, karVars, encVars>>

\* the enclosing walker gives up its remaining tags when a nested walker returns
ChmWalker_feed_return_abandon ==
    /\ wphase = "walking" /\ Len(wstack) > 1 /\ wstack[Len(wstack)].links = <<>>
    /\ wstack' = [SubSeq(wstack, 1, Len(wstack) - 1) EXCEPT ![Len(wstack) - 1].links = <<>>]
    /\ UNCHANGED <<sessVars, home, pages, wcontents, wentered, wphase, infoVars, confVars, effect, karVars, encVars>>

\* newwalker.feed(t) returns: the enclosing walker goes on with its next tag
ChmWalker_feed_return ==
    /\ wphase = "walking" /\ Len(wstack) > 1 /\ wstack[Len(wstack)].links = <<>>
    /\ wstack' = SubSeq(wstack, 1, Len(wstack) - 1)
    /\ UNCHANGED <<sessVars, home, pages, wcontents, wentered, wphase, infoVars, confVars, effect, karVars, encVars>>

\* rclCHM.openfile(params): walker.feed(text) of the home page returns, walker.close(),
\* the duplicates are eliminated and True is returned
rclCHM_openfile_walked ==
    /\ wphase = "walking" /\ Len(wstack) = 1 /\ wstack[1].links = <<>>
    /\ wstack' = <<>> /\ wphase' = "opened"
    /\ contents' = EliminateDuplicates(wcontents)
    /\ currentindex' = -1 /\ phase' = "open"
    /\ UNCHANGED <<kind, source, store, handle, tarpos, call, ret, log, released,
                   home, pages, wcontents, wentered, infoVars, confVars, effect, karVars, encVars>>

InitWalk ==
    /\ kind = "chm" /\ source = <<>> /\ phase = "unopened" /\ handle = FALSE
    /\ contents = <<>> /\ currentindex = -1 /\ tarpos = 0
    /\ call = [op |-> "none", arg |-> <<>>, held |-> FALSE] /\ ret = NoRet
    /\ log = <<>> /\ released = <<>>
    /\ home = <<>> /\ pages = <<>> /\ store = {}
    /\ wstack = <<>> /\ wcontents = <<>> /\ wentered = <<>> /\ wphase = "idle"
    /\ InfoIdle /\ ConfPlain

NextWalk ==
    \/ rclCHM_openfile_walk
    \/ ChmWalker_handle_starttag
    \/ ChmWalker_feed_return
    \/ rclCHM_openfile_walked

SpecWalk == InitWalk /\ [][NextWalk]_vars

\* larger containers, without cycles: home /h links to /p, /q, /r, also in the
\* compound form with and without the ms-its scheme; /p and /q link to /r and to /x,
\* which no container stores; /r has no link; any page but home may fail to parse,
\* whatever links its text holds
MsIts == <<"m", "s", "-", "i", "t", "s">>
Compound(path) == <<":", "f", ":">> \o path
HomeHrefs ==
    {[scheme |-> <<>>, path |-> q] : q \in {<<"/", "p">>, <<"/", "q">>, <<"/", "r">>}}
        \cup {[scheme |-> MsIts, path |-> Compound(<<"/", "q">>)],
              [scheme |-> <<>>, path |-> Compound(<<"/", "q">>)]}
InnerHrefs == {[scheme |-> <<>>, path |-> q] : q \in {<<"/", "r">>, <<"/", "x">>}}
Unparsed(hrefs) == {[links |-> l, parses |-> FALSE] : l \in SeqsUpTo(hrefs, 1)}
Parsed(hrefs, n) == {[links |-> l, parses |-> TRUE] : l \in SeqsUpTo(hrefs, n)}
\* rclCHM.openfile(params) with no topics object, on any of the larger containers
rclCHM_openfile_links ==
    /\ wphase = "idle"
    /\ \E d \in SUBSET {<<"/", "p">>, <<"/", "q">>, <<"/", "r">>} :
       \E ph \in Parsed(HomeHrefs, MaxLinks) :
       \E pp \in Parsed(InnerHrefs, MaxLinks) \cup Unparsed(InnerHrefs) :
       \E pq \in Parsed(InnerHrefs, MaxLinks) \cup Unparsed(InnerHrefs) :
       \E pr \in Parsed({}, MaxLinks) \cup Unparsed({}) :
          WalkStart(<<"/", "h">>, d \cup {<<"/", "h">>},
                    [a \in d \cup {<<"/", "h">>} |->
                        CASE a = <<"/", "h">> -> ph
                          [] a = <<"/", "p">> -> pp
                          [] a = <<"/", "q">> -> pq
                          [] OTHER -> pr])

NextLinks ==
    \/ rclCHM_openfile_links
    \/ ChmWalker_handle_starttag
    \/ ChmWalker_feed_return
    \/ rclCHM_openfile_walked

SpecLinks == InitWalk /\ [][NextLinks]_vars
\* the steps of a walk under way
WalkStep == ChmWalker_handle_starttag \/ ChmWalker_feed_return \/ rclCHM_openfile_walked
\* a call of openfile runs on: no handler is suspended forever
FairSpecWalk == SpecWalk /\ WF_vars(WalkStep)

\* the values of the params of the catalogs explored: plain paths, compound forms
\* of two to five fields with empty and non-empty segments, fragments
CatalogValues ==
    {<<>>, <<"a">>, <<"/", "b">>, <<"/", "a", "#", "x">>, <<"/", "a", "%23", "x">>,
     <<"f", ":", "/", "a">>, <<"v", ":", "f", ":", "/", "a">>,
     <<"v", ":", "f", ":", ":", "/", "a">>, <<"v", ":", "f", ":", ":", "a">>,
     <<"v", ":", ":", ":", "/", "a">>, <<"v", ":", "f", ":", ":">>,
     <<"v", ":", "f", ":", ":", "/", "a", "#", "x">>,
     <<"w", ":", "v", ":", "f", ":", ":", "/", "a">>}
\* the tags of the topics objects explored
CatalogRecords ==
    {[tag |-> "param", name |-> Local, value |-> v] : v \in CatalogValues}
        \cup {[tag |-> "param", name |-> <<"N", "a", "m", "e">>, value |-> <<"/", "a">>],
              [tag |-> "li", name |-> <<>>, value |-> <<>>]}

\* a CHM session on a topics object of any of these tags
InitTopics ==
    /\ kind = "chm"
    /\ source \in SeqsUpTo(CatalogRecords, MaxCatalog)
    /\ store \in SUBSET Addr
    /\ phase = "unopened" /\ handle = FALSE
    /\ contents = <<>> /\ currentindex = -1 /\ tarpos = 0
    /\ call = [op |-> "none", arg |-> <<>>, held |-> FALSE] /\ ret = NoRet
    /\ log = <<>> /\ released = <<>>
    /\ WalkIdle /\ InfoIdle /\ ConfPlain

NextTopics == rclCHM_openfile \/ CHM_getnext \/ closefile

SpecTopics == InitTopics /\ [][NextTopics]_vars

\* the files given to openfile: a container, no such file, a file of another
\* format, and for info a container on a host without the info program
FileStates(k) == IF k = "info" THEN {"ok", "nofile", "nohelper"} ELSE {"ok", "nofile", "corrupt"}

\* a CHM, info or zip session on any of these files; a CHM without topics is walked
InitOpen ==
    /\ kind \in {"chm", "info", "zip"}
    /\ source \in Sources(kind)
    /\ filestate \in FileStates(kind)
    /\ store = (IF kind = "info" THEN {} ELSE Addr)
    /\ catenate = FALSE /\ shape = [a \in Addr |-> "full"] /\ spine = <<>>
    /\ sizes = [a \in Addr |-> 0] /\ effect = NoEffect /\ KarIdle /\ EncIdle
    /\ phase = "unopened" /\ handle = FALSE
    /\ contents = <<>> /\ currentindex = -1 /\ tarpos = 0
    /\ call = [op |-> "none", arg |-> <<>>, held |-> FALSE] /\ ret = NoRet
    /\ log = <<>> /\ released = <<>>
    /\ WalkIdle /\ InfoIdle

NextOpen ==
    \/ rclCHM_openfile
    \/ rclCHM_openfile_walk
    \/ ChmWalker_handle_starttag
    \/ ChmWalker_feed_return
    \/ rclCHM_openfile_walked
    \/ CHM_getnext
    \/ InfoExtractor_openfile
    \/ Info_getnext
    \/ ZipExtractor_openfile
    \/ Zip_getnext

SpecOpen == InitOpen /\ [][NextOpen]_vars

-----------------------------------------------------------------------------
(* The resolver on its own: splitinfo applied to header tables *)

\* a node name that ends with a slash
Dslash == <<"d", "/">>
\* an Up: value that names no node of the file
Dir == <<"(", "d", "i", "r", ")">>
\* the header lines explored: the Node: and Up: fields of a "File: f, Node: .., Up: .." line
InfoRecords ==
    {[Node |-> Top, Up |-> Dir]}
        \cup {[Node |-> n, Up |-> u] : n \in {N1, N2, Dslash}, u \in {Top, N1, N2, Dslash, Dir}}

InitInfo ==
    /\ SessIdle /\ WalkIdle /\ ConfPlain
    /\ headers \in SeqsUpTo(InfoRecords, MaxRecords)
    /\ listout1 = <<>> /\ iphase = "idle"

\* InfoSimpleSplitter.splitinfo(filename, fin) runs and returns listout1
InfoSimpleSplitter_splitinfo ==
    /\ iphase = "idle"
    /\ listout1' = splitinfo(headers, InfoFile)
    /\ iphase' = "done"
    /\ UNCHANGED <<sessVars, walkVars, headers, confVars, effect, karVars, encVars>>

NextInfo == InfoSimpleSplitter_splitinfo

SpecInfo == InitInfo /\ [][NextInfo]_vars

\* the name of the k-th node of a chain
ChainName(k) == <<"k">> \o StrOfNat(k)
\* the header lines of n nodes in one chain: the first node's Up is root, the Up of
\* every other node is the node before it; in the order of the chain or in reverse
ChainHeaders(n, root, reversed) ==
    [i \in 1..n |->
        LET k == IF reversed THEN n + 1 - i ELSE i
        IN [Node |-> ChainName(k), Up |-> IF k = 1 THEN root ELSE ChainName(k - 1)]]

\* splitinfo about to run on a stream whose nodes form one chain
InitChain ==
    /\ SessIdle /\ WalkIdle /\ ConfPlain
    /\ \E n \in 1..MaxChain, root \in {Top, Dir}, reversed \in BOOLEAN :
          headers = ChainHeaders(n, root, reversed)
    /\ listout1 = <<>> /\ iphase = "idle"

NextChain == InfoSimpleSplitter_splitinfo

SpecChain == InitChain /\ [][NextChain]_vars

-----------------------------------------------------------------------------
(* rclkar.py: KarTextExtractor.html_text *)

\* most events in a midi stream given to html_text
MaxEvents == 2

\* a byte string and a str are different types to codecs.lookup and bytes.decode
Bytes(v) == [t |-> "bytes", v |-> v]
Str(v) == [t |-> "str", v |-> v]
\* the empty str ""
NoEnc == Str(<<>>)

\* the codec names known to the runtime
KnownCodecs == {<<"cp1252">>, <<"utf-8">>, <<"utf-16">>, <<"iso-8859-1">>, <<"iso-8859-2">>}
\* KarTextExtractor.acceptnullencodings, the members the detector answers here
acceptnullencodings == {<<"utf-16">>}
\* self.defaultencoding.lower().find("ascii") != -1, on the names explored
HasAscii(name) == name \in {<<"ascii">>, <<"US-ASCII">>}
\* KarTextExtractor.__init__(em): self.defaultencoding, from the encoding
\* sys.getfilesystemencoding() answers; sys.getdefaultencoding() is "utf-8"
KarTextExtractor_init(fsenc) ==
    LET d0 == IF fsenc = <<"None">> THEN <<"utf-8">> ELSE fsenc
        d1 == IF d0 = <<>> \/ HasAscii(d0) THEN <<"cp1252">> ELSE d0
    IN IF d1 \in KnownCodecs THEN Str(d1) ELSE Str(<<"cp1252">>)
\* self.defaultencoding
defaultencoding == KarTextExtractor_init(klocale)
\* the confidence 0.6 of html_text, in hundredths
ConfidenceFloor == 60

\* [a-zA-Z]+ : the extensions of the file names explored
IsAlpha(tok) == tok \in {"kar", "mid"}

\* KarTextExtractor.encodingfromfilename(fn): re.search(rb"\(([^\)]+)\)\.[a-zA-Z]+$", fn)
encodingfromfilename(fn) ==
    LET n == Len(fn)
        starts == {i \in 1..(n - 4) : fn[i] = "(" /\ \A j \in (i + 1)..(n - 3) : fn[j] # ")"}
        first == CHOOSE i \in starts : \A j \in starts : i <= j
    IN IF n >= 5 /\ IsAlpha(fn[n]) /\ fn[n - 1] = "." /\ fn[n - 2] = ")" /\ starts # {}
       THEN Bytes(SubSeq(fn, first + 1, n - 3))
       ELSE NoEnc

\* codecs.lookup(encoding) returns: the argument is a str naming a known codec
codecs_lookup_ok(enc) == enc.t = "str" /\ enc.v \in KnownCodecs

\* KarTextExtractor.nulltrunc(data): the data up to the first null byte, and whether
\* there was one
nulltrunc(data) ==
    LET nulls == {i \in 1..Len(data) : data[i] = "NUL"}
        firstnull == CHOOSE i \in nulls : \A j \in nulls : i <= j
    IN IF nulls = {} THEN [data |-> data, had |-> FALSE]
       ELSE [data |-> SubSeq(data, 1, firstnull - 1), had |-> TRUE]

\* KarTextExtractor.reencode(data): decoded with self.encoding, or "" when decode raises
reencode(data, enc) ==
    IF data = <<>> THEN [ok |-> TRUE, enc |-> <<>>, text |-> <<>>]
    ELSE IF codecs_lookup_ok(enc) THEN [ok |-> TRUE, enc |-> enc.v, text |-> data]
    ELSE [ok |-> FALSE, enc |-> <<>>, text |-> <<>>]

\* the locals of html_text before the loop over the events
KarLocals ==
    [title |-> [set |-> FALSE, v |-> <<>>, n |-> <<>>],
     author |-> [set |-> FALSE, v |-> <<>>, n |-> <<>>],
     language |-> <<>>, lyrics |-> <<>>, lyricsN |-> <<>>,
     hadnulls |-> FALSE, nl |-> FALSE, exc |-> FALSE]

\* lyrics += self.nulltrunc(edata); lyricsN += edata
AddLyrics(st, edata) ==
    [st EXCEPT !.lyrics = @ \o nulltrunc(edata).data, !.lyricsN = @ \o edata,
               !.hadnulls = @ \/ nulltrunc(edata).had]

\* html_text: the body of the loop for one TextMetaEvent
KarTextMeta(st, data) ==
    IF data = <<>> THEN st
    ELSE IF data[1] \in {"/", "\\"} THEN AddLyrics(st, <<"\n">> \o Tail(data))
    ELSE IF data[1] \in {"[", "]"} THEN AddLyrics(st, Tail(data))
    ELSE IF data[1] = "@"
    THEN IF Len(data) = 1 THEN st
         ELSE LET rest == SubSeq(data, 3, Len(data))
                  t == nulltrunc(rest)
              IN IF data[2] = "I" THEN AddLyrics(st, rest \o <<"\n">>)
                 ELSE IF data[2] = "L"
                 THEN [st EXCEPT !.language = t.data, !.hadnulls = @ \/ t.had]
                 ELSE IF data[2] = "T" /\ ~st.title.set
                 THEN [st EXCEPT !.title = [set |-> TRUE, v |-> t.data, n |-> rest],
                                 !.hadnulls = @ \/ t.had]
                 ELSE IF data[2] = "T" /\ ~st.author.set
                 THEN [st EXCEPT !.author = [set |-> TRUE, v |-> t.data, n |-> rest],
                                 !.hadnulls = @ \/ t.had]
                 ELSE st
    ELSE AddLyrics(st, data)

\* html_text: the body of the loop for one LryricsEvent or TrackNameEvent; the local
\* nl is bound by a TrackNameEvent only, and reading it unbound raises
KarLyrics(st, type, data) ==
    LET st1 == IF type = "trackname" THEN [st EXCEPT !.nl = TRUE] ELSE st
    IN IF data = <<>> THEN st1
       ELSE IF ~st1.nl THEN [st1 EXCEPT !.exc = TRUE]
       ELSE IF data[1] \in {"/", "\\"} THEN AddLyrics(st1, <<"\n">> \o Tail(data) \o <<"\n">>)
       ELSE AddLyrics(st1, data \o <<"\n">>)

RECURSIVE KarLoop(_, _)
\* html_text: for event in stream.iterevents()
KarLoop(events, st) ==
    IF events = <<>> \/ st.exc THEN st
    ELSE IF Head(events).type = "text"
         THEN KarLoop(Tail(events), KarTextMeta(st, Head(events).data))
         ELSE KarLoop(Tail(events), KarLyrics(st, Head(events).type, Head(events).data))

\* KarTextExtractor.chardet_detect(text): raw is what chardet.detect answers, cls the
\* code the stop-words classifier finds ("none": unavailable, failing or no match)
chardet_detect(raw, cls) ==
    IF raw.encoding = "None" THEN [exc |-> TRUE, encoding |-> <<>>, confidence |-> 0]
    ELSE IF raw.encoding = "iso-8859-2" /\ cls # "none"
    THEN [exc |-> FALSE, encoding |-> <<cls>>, confidence |-> 100]
    ELSE [exc |-> FALSE, encoding |-> <<raw.encoding>>, confidence |-> raw.confidence]

\* what html_text did when it raised
KarRaised(calls) ==
    [exc |-> TRUE, encoding |-> NoEnc, calls |-> calls, title |-> <<>>, author |-> <<>>,
     lyrics |-> <<>>]

\* KarTextExtractor.html_text(filename) on the events of the stream; a1 and a2 are
\* the detector's answers on the data with and without nulls
html_text(filename, events, has_chardet, a1, a2) ==
    LET fromname == encodingfromfilename(filename)
        enc0 == IF fromname.v # <<>> /\ ~codecs_lookup_ok(fromname) THEN NoEnc ELSE fromname
        st == KarLoop(events, KarLocals)
        detecting == enc0 = NoEnc /\ has_chardet
        call1 == detecting /\ st.hadnulls
        accept1 == /\ call1 /\ ~a1.exc /\ a1.confidence > ConfidenceFloor
                   /\ a1.encoding \in acceptnullencodings
        enc1 == IF accept1 THEN Str(a1.encoding) ELSE enc0
        call2 == detecting /\ enc1 = NoEnc
        enc2 == IF call2 /\ ~a2.exc /\ a2.confidence > ConfidenceFloor
                THEN Str(a2.encoding) ELSE enc1
        encoding == IF enc2 = NoEnc THEN defaultencoding ELSE enc2
        calls == (IF call1 THEN <<"lyricsN">> ELSE <<>>) \o (IF call2 THEN <<"lyrics">> ELSE <<>>)
        title == IF accept1 THEN st.title.n ELSE st.title.v
        author == IF accept1 THEN st.author.n ELSE st.author.v
        lyrics == IF accept1 THEN st.lyricsN ELSE st.lyrics
    IN IF st.exc THEN KarRaised(<<>>)
       ELSE IF call1 /\ a1.exc THEN KarRaised(<<"lyricsN">>)
       ELSE IF accept1 /\ ~(st.title.set /\ st.author.set) THEN KarRaised(<<"lyricsN">>)
       ELSE IF call2 /\ a2.exc THEN KarRaised(calls)
       ELSE [exc |-> FALSE, encoding |-> encoding, calls |-> calls,
             title |-> reencode(title, encoding), author |-> reencode(author, encoding),
             lyrics |-> reencode(lyrics, encoding)]

\* the file names explored: a charset in parentheses before the extension, none, an
\* unknown one, one that is not before the extension, an empty pair of parentheses
KarNames ==
    {<<"s", "(", "cp1252", ")", ".", "kar">>, <<"s", ".", "kar">>,
     <<"s", "(", "klingon", ")", ".", "kar">>, <<"(", "cp1252", ")", "s", ".", "kar">>,
     <<"s", "(", ")", ".", "kar">>}

\* the events explored
KarEventSet ==
    {[type |-> "text", data |-> <<>>], [type |-> "text", data |-> <<"a">>],
     [type |-> "text", data |-> <<"@", "T", "t">>],
     [type |-> "text", data |-> <<"a", "NUL", "g">>],
     [type |-> "lyrics", data |-> <<"a">>], [type |-> "lyrics", data |-> <<"/", "a">>],
     [type |-> "trackname", data |-> <<"a">>], [type |-> "trackname", data |-> <<>>]}

\* what chardet.detect and the classifier can answer
RawAnswers == [encoding : {"None", "utf-16", "utf-8", "iso-8859-2"}, confidence : {50, 60, 70}]
DetectorAnswers == {chardet_detect(raw, cls) : raw \in RawAnswers, cls \in {"none", "iso-8859-1"}}

\* the encodings of the locales explored
LocaleEncodings == {<<"None">>, <<>>, <<"ascii">>, <<"US-ASCII">>, <<"utf-8">>, <<"iso-8859-1">>, <<"klingon">>}

InitKar ==
    /\ SessIdle /\ WalkIdle /\ InfoIdle /\ ConfIdle /\ EncIdle
    /\ kfile \in KarNames
    /\ kevents \in SeqsUpTo(KarEventSet, MaxEvents)
    /\ kchardet \in BOOLEAN
    /\ klocale \in LocaleEncodings
    /\ kdetect = <<>>
    /\ kout = <<>>

\* html_text(filename) runs; the detector is asked only where the code calls it
KarTextExtractor_html_text ==
    /\ kout = <<>>
    /\ \E a1, a2 \in DetectorAnswers :
          /\ kout' = html_text(kfile, kevents, kchardet, a1, a2)
          /\ kdetect' = [i \in 1..Len(kout'.calls) |->
                             IF kout'.calls[i] = "lyricsN" THEN a1 ELSE a2]
    /\ UNCHANGED <<sessVars, walkVars, infoVars, confVars, effect, kfile, kevents, kchardet,
                   klocale, encVars>>

NextKar == KarTextExtractor_html_text

SpecKar == InitKar /\ [][NextKar]_vars

-----------------------------------------------------------------------------
(* rclchm.py: rclCHM.fixencoding *)

\* longest text, in pieces, given to fixencoding
MaxPieces == 4

\* the pieces of a text: a content-type declaration
\* <meta http-equiv="content-type" content="text/html; charset=V">, some other markup
\* that ends in charset=V">, a byte, a newline
Decl(v) == [k |-> "decl", v |-> v]
TailMarkup(v) == [k |-> "tail", v |-> v]
Byte(b) == [k |-> "byte", v |-> b]
Newline == [k |-> "nl", v |-> ""]

\* bytes.lower() on the charset names explored (re.IGNORECASE, codec lookup)
Lower(v) ==
    CASE v = "US-ASCII" -> "us-ascii"
      [] v = "Ascii" -> "ascii"
      [] OTHER -> v

\* the positions from i to the end of its line ("." does not match a newline)
SameLineFrom(text, i) == {j \in i..Len(text) : \A k \in i..j : text[k].k # "nl"}

\* ((us-)?ascii), re.IGNORECASE
IsAsciiName(v) == Lower(v) \in {"ascii", "us-ascii"}
\* ([a-z0-9-]+), re.IGNORECASE
IsCharsetName(v) == v # ""

\* a search for <meta http-equiv="content-type" .* charset = V " > with V an ascii
\* name (asciito1252re) or any name (findcharsetre): the leftmost declaration that has
\* such an ending after it on its line, and, .* being greedy, the last such ending
MetaSearch(text, asciionly) ==
    LET names(v) == IF asciionly THEN IsAsciiName(v) ELSE IsCharsetName(v)
        ends(i) == {j \in SameLineFrom(text, i) : text[j].k \in {"decl", "tail"} /\ names(text[j].v)}
        starts == {i \in 1..Len(text) : text[i].k = "decl" /\ ends(i) # {}}
        first == CHOOSE i \in starts : \A j \in starts : i <= j
    IN IF starts = {} THEN 0
       ELSE CHOOSE j \in ends(first) : \A k \in ends(first) : k <= j

\* text.decode(charset, errors="replace") of one byte: 0x81 has no character in
\* windows-1252, 0xE9 is not valid UTF-8 on its own, only 0x61 is ASCII
DecodeByte(b, charset) ==
    CASE b = "61" -> "a"
      [] b = "E9" /\ charset \in {"windows-1252", "cp1252"} -> "e-acute"
      [] OTHER -> "U+FFFD"

\* the codec names the runtime knows, by their lower-case form
KnownCharsets == {"windows-1252", "cp1252", "utf-8", "ascii", "us-ascii"}

\* rclCHM.fixencoding(text), text being bytes
fixencoding(text) ==
    LET a == MetaSearch(text, TRUE)
        fixed == IF a = 0 THEN text ELSE [text EXCEPT ![a].v = "windows-1252"]
        m == MetaSearch(fixed, FALSE)
        charset == IF m = 0 THEN "cp1252" ELSE fixed[m].v
    IN IF Lower(charset) \notin KnownCharsets
       THEN [exc |-> TRUE, charset |-> charset, text |-> <<>>]
       ELSE [exc |-> FALSE, charset |-> charset,
             text |-> [i \in 1..Len(fixed) |->
                          IF fixed[i].k = "byte"
                          THEN [k |-> "char", v |-> DecodeByte(fixed[i].v, Lower(charset))]
                          ELSE fixed[i]]]

\* the pieces explored
EncPieces ==
    {Decl("ascii"), Decl("US-ASCII"), Decl("utf-8"), Decl("klingon"), TailMarkup("utf-8"),
     TailMarkup("klingon"), Byte("61"), Byte("E9"), Byte("81"), Newline}

InitEnc ==
    /\ SessIdle /\ WalkIdle /\ InfoIdle /\ ConfIdle /\ KarIdle
    /\ etext \in SeqsUpTo(EncPieces, MaxPieces)
    /\ eout = <<>>

\* fixencoding(text) runs
rclCHM_fixencoding ==
    /\ eout = <<>>
    /\ eout' = <<fixencoding(etext)>>
    /\ UNCHANGED <<sessVars, walkVars, infoVars, confVars, effect, karVars, etext>>

NextEnc == rclCHM_fixencoding

SpecEnc == InitEnc /\ [][NextEnc]_vars

-----------------------------------------------------------------------------
(* Claims about the session *)

\* the sessions that keep a ContentIndex and a cursor into it (war streams tar.next())
IndexedKinds == {"chm", "epub", "info", "ics", "zip", "tar", "rar"}

\* the Addresses of the open session, in order
ContentIndex ==
    CASE kind \in {"chm", "epub"} -> contents
      [] kind \in ByIndex -> [i \in 1..Len(contents) |-> StrOfNat(i - 1)]
      [] OTHER -> source

\* getnext() / getipath(a) of the running extractor
GetnextStep ==
    CASE kind = "chm" -> rclCHM_getnext
      [] kind = "epub" -> rclEPUB_getnext
      [] kind = "info" -> InfoExtractor_getnext
      [] kind = "ics" -> IcalExtractor_getnext
      [] kind = "war" -> WarExtractor_getnext
      [] OTHER -> ArchiveExtractor_getnext
GetipathStep(a) ==
    CASE kind = "chm" -> rclCHM_getipath(a)
      [] kind = "epub" -> rclEPUB_getipath(a)
      [] kind = "info" -> InfoExtractor_getipath(a)
      [] kind = "ics" -> IcalExtractor_getipath(a)
      [] kind = "war" -> WarExtractor_getipath(a)
      [] kind = "tar" -> TarExtractor_getipath(a)
      [] OTHER -> ArchiveExtractor_getipath(a)

SameItem(r, q) == r.ok = q.ok /\ r.data = q.data /\ r.ipath = q.ipath /\ r.exc = q.exc

\* C1: in a non-catenate CHM, info, ICS or EPUB session whose ContentIndex has n >= 1 Addresses,
\* the getnext calls return the self-document, then one result per Address in
\* ContentIndex order, with noteof before the last Address and eofnext on it; every
\* later getnext returns failure with eofnow and no item, and the cursor stays put.
C1_Enumeration ==
    (kind \in {"chm", "info", "ics", "epub"} /\ ~catenate /\ phase # "unopened"
         /\ Len(contents) >= 1) =>
        LET n == Len(contents)
        IN /\ \A j \in 1..Len(log) :
                 /\ ~log[j].exc
                 /\ j = 1 => log[j].ok /\ log[j].ipath = <<>> /\ log[j].eof = noteof
                 /\ (1 < j /\ j <= n + 1) =>
                        /\ log[j].ipath = ContentIndex[j - 1]
                        /\ log[j].eof = (IF j = n + 1 THEN eofnext ELSE noteof)
                 /\ j > n + 1 =>
                        /\ ~log[j].ok /\ log[j].eof = eofnow
                        /\ log[j].data = <<>> /\ log[j].ipath = <<>>
           /\ currentindex = (IF Len(log) <= n THEN Len(log) - 1 ELSE n)

C1_Witness ==
    /\ kind = "chm" /\ Len(contents) >= 2
    /\ Len(log) = Len(contents) + 2
    /\ \A j \in 1..(Len(contents) + 1) : log[j].ok
    /\ log[Len(contents) + 1].eof = eofnext
    /\ log[Len(log)].eof = eofnow

\* C2 as stated: at any point of an open session, also after getnext has reached
\* end-of-stream, getipath(A) returns ok with the data and address that the getnext
\* call delivering A returned.
C2_AnyTime ==
    (kind \in IndexedKinds /\ phase = "open" /\ call.op = "getipath") =>
        \A j \in 2..Len(log) :
            (log[j].ok /\ log[j].ipath = call.arg) =>
                ret.ok /\ ret.data = log[j].data /\ ret.ipath = log[j].ipath

\* C2 amended: while the container handle is held (before the getnext call that
\* reaches end-of-stream releases it), getipath(A) for an Address A of ContentIndex
\* returns the same ok flag, data and address as the getnext call for A.
C2_WhileHeld ==
    (kind \in IndexedKinds /\ phase = "open") =>
        /\ (call.op = "getipath" /\ call.held /\ call.arg \in Range(ContentIndex)) =>
               /\ ~ret.exc
               /\ \A j \in 2..Len(log) :
                      (log[j].ipath = call.arg /\ ~log[j].exc) => SameItem(ret, log[j])
        /\ ((kind \in HasHandle => handle)
                /\ 0 <= currentindex /\ currentindex < Len(ContentIndex)) =>
               SameItem(GetipathStep(ContentIndex[currentindex + 1]).ret, GetnextStep.ret)

C2_Witness ==
    /\ kind = "chm" /\ call.op = "getipath" /\ call.held /\ ret.ok
    /\ \E j \in 2..Len(log) : log[j].ipath = call.arg /\ log[j].ok /\ ret.data = log[j].data

\* C3 as stated: getipath(A) signals eofnext exactly when A is the last Address of
\* ContentIndex, at every cursor position.
C3_EofIffLast ==
    (kind \in {"chm", "info", "ics", "epub"} /\ call.op = "getipath"
         /\ call.arg \in Range(ContentIndex)) =>
        (ret.eof = eofnext <=> call.arg = ContentIndex[Len(ContentIndex)])

\* the addresses the topics catalog yields, before the de-duplication
Discovered == ChmTopicsParser_feed(<<>>, source)
\* s without the elements that occurred earlier in it
FirstOccurrences(s) ==
    LET keep == {i \in 1..Len(s) : \A j \in 1..(i - 1) : s[j] # s[i]}
        pos(k) == CHOOSE i \in keep : Cardinality({j \in keep : j < i}) = k - 1
    IN [k \in 1..Cardinality(keep) |-> s[pos(k)]]

\* C4: after a successful CHM open, ContentIndex holds no Address twice and is the
\* discovered sequence with every later duplicate dropped, first occurrences in order.
C4_Dedup ==
    (kind = "chm" /\ phase # "unopened") =>
        /\ IsInjective(contents)
        /\ contents = FirstOccurrences(Discovered)

C4_Witness ==
    /\ kind = "chm" /\ phase = "open"
    /\ Discovered = << <<"/", "a">>, <<"/", "b">>, <<"/", "b">>, <<"/", "c">> >>
    /\ contents = << <<"/", "a">>, <<"/", "b">>, <<"/", "c">> >>

Resolves(a) ==
    /\ a \in store
    /\ kind = "epub" => get_item(a)
    /\ kind \in {"zip", "tar", "rar", "war"} => a \in Range(source)

\* C10 as stated: in the CHM, EPUB, zip, tar, rar and WAR sessions, fetching an
\* address that does not resolve in the open container, by getipath or by getnext
\* reaching it, returns ok = false and raises nothing.
C10_UnresolvedFails ==
    (kind \in HasHandle /\ phase \in {"open", "dead"} /\ call.held) =>
        /\ (call.op = "getipath" /\ ~Resolves(call.arg)) => ~ret.ok /\ ~ret.exc
        /\ (call.op = "getnext" /\ ret.ipath # <<>> /\ ~Resolves(ret.ipath)) =>
               ~ret.ok /\ ~ret.exc


-----------------------------------------------------------------------------
(* Claims about the link walk *)

\* openfile has returned or raised
WalkDone == wphase \in {"opened", "failed", "raised"}
\* the addresses the links of the page recorded at addr (fetched as member key) lead to
LinkTargets(addr, key) ==
    {WalkerNpath(dirname(addr), WalkerHrefPath(h)) : h \in Range(pages[key].links)}
\* the graph home -> page1 -> home: the only link of the recorded home address leads
\* to page1, and the only link of page1 leads back to the recorded home address
HomeCycle(H, P) ==
    /\ wcontents # <<>> /\ wcontents[1] = H /\ P # H
    /\ H \in store /\ pages[H].parses /\ LinkTargets(H, H) = {P}
    /\ P \in store /\ pages[P].parses /\ LinkTargets(P, P) = {H}

C5_EnteredOnce == \A p \in DOMAIN wentered : wentered[p] <= 1
C5_Example ==
    \A H, P \in WalkPaths :
        (wphase = "opened" /\ HomeCycle(H, P)) => contents = <<H, P>>

-----------------------------------------------------------------------------
(* Claims about the resolver *)

RECURSIVE Chain(_, _, _)
\* the names from the child of Top down to name, following the table for at most
\* fuel hops; <<"?">> heads the result when Top is not reached
Chain(name, node_dict, fuel) ==
    IF name = Top THEN <<>>
    ELSE IF fuel = 0 \/ name \notin DOMAIN node_dict THEN <<<<"?">>, name>>
    ELSE Chain(node_dict[name], node_dict, fuel - 1) \o <<name>>

\* the chain of the name reaches Top through names present in the table
ReachesTop(name) ==
    LET c == Chain(name, NodeDict(headers), Len(headers))
    IN c = <<>> \/ c[1] # <<"?">>
\* the chain of the name meets a name absent from the table
Dangling(name) ==
    LET c == Chain(name, NodeDict(headers), Len(headers))
    IN ~ReachesTop(name) /\ c[2] \notin DOMAIN NodeDict(headers)
\* the container's display name, then the chain names, joined by " / "
TitlePath(name) ==
    JoinWith(<<InfoFile>> \o Chain(name, NodeDict(headers), Len(headers)), TitleSep)
\* the records the resolver has output, by position in the table
OutputOf(i) == {j \in 1..Len(listout1) : listout1[j].node = NodeBytes(i)}
\* the hops made by the walk of the i-th record
Hops(i) == UpWalk(headers[i].Node, <<>>, 0, NodeDict(headers)).loop

\* C6 as stated: a record whose chain reaches Top through names of the table gets
\* the title path made of the container's display name and the chain names, most
\* distant ancestor first, joined by ' / '.
C6_TitlePath ==
    iphase = "done" =>
        \A i \in 1..Len(headers) :
            ReachesTop(headers[i].Node) =>
                \E j \in OutputOf(i) : listout1[j].title = TitlePath(headers[i].Node)

TopChildren ==
    {i \in 1..Len(headers) :
        /\ headers[i].Node # Top /\ headers[i].Up = Top
        /\ NodeDict(headers)[headers[i].Node] = Top}
\* the records that are the Top node itself
TopRecords == {i \in 1..Len(headers) : headers[i].Node = Top}

Duplicates ==
    {i \in 1..Len(headers) : \E k \in 1..(i - 1) : headers[k].Node = headers[i].Node}
\* the table in which each name keeps the parent given by its first record
EarliestDict ==
    [n \in {headers[i].Node : i \in 1..Len(headers)} |->
        headers[CHOOSE i \in 1..Len(headers) :
                    /\ headers[i].Node = n
                    /\ \A k \in 1..(i - 1) : headers[k].Node # n].Up]

\* C31 as stated: when records share a name, the walks through that name use the
\* parent given by the first record, and the later records are still output by
\* position: the output is the one computed over the table of first parents.
C31_EarliestIdentity ==
    (iphase = "done" /\ Duplicates # {}) =>
        listout1 = ComputePaths(Listout(headers), EarliestDict, InfoFile)

\* the hops from the i-th record up to Top
HopsToTop(i) == Len(Chain(headers[i].Node, NodeDict(headers), Len(headers)))

-----------------------------------------------------------------------------
(* Claims about failures, the cursor and the first call *)

\* the position getnext has reached: self.currentindex, or the members read by tar.next()
Cursor == IF kind = "war" /\ currentindex >= 0 THEN tarpos ELSE currentindex

\* C11 as stated: a getnext whose fetch fails while items remain does not signal eofnow
\* and does not release the handle, the cursor moves past the failed item, and the later
\* getnext calls deliver the remaining sub-documents as they would have otherwise
\* (a getnext that raises because a getipath in between dropped the handle is not counted).
C11_FailureGoesOn ==
    (kind \in HasHandle /\ phase # "unopened") =>
        LET n == Len(ContentIndex)
        IN \A j \in 2..Len(log) :
               (j < n + 1 /\ ~log[j].exc /\ ~log[j].ok /\ log[j].ipath = ContentIndex[j - 1]) =>
                   /\ log[j].eof = noteof
                   /\ ~released[j]
                   /\ Len(log) = j => Cursor = j - 1
                   /\ \A k \in (j + 1)..Len(log) :
                          k <= n + 1 =>
                              IF log[k].exc
                              THEN \A i \in 1..(k - 1) : ~released[i]
                              ELSE /\ log[k].ipath = ContentIndex[k - 1]
                                   /\ log[k].ok <=> Resolves(ContentIndex[k - 1])

\* a step that served a getnext call, returning or raising
IsGetnext == Len(log') = Len(log) + 1

\* C12 as stated: every getnext leaves the cursor unchanged, and then it is already
\* at the length of ContentIndex, or advances it by exactly one, so that the cursor
\* lies between -1 and the length of ContentIndex.
C12_CursorSteps ==
    [][/\ IsGetnext =>
              \/ Cursor' = Cursor + 1
              \/ Cursor' = Cursor /\ Cursor = Len(ContentIndex)
       /\ -1 <= Cursor' /\ Cursor' <= Len(ContentIndex')]_vars

\* C12, amended: the cursor never decreases and lies between -1 and the length of
\* ContentIndex; a getnext that returns in a session without catenation advances it
\* by exactly one, or leaves it unchanged when it is already at the length of
\* ContentIndex; a getnext of a catenating session, and a getnext that raises, leave
\* it where it was.
C12_CursorMonotone ==
    [][/\ Cursor' >= Cursor
       /\ IsGetnext =>
              IF catenate \/ ret'.exc THEN Cursor' = Cursor
              ELSE \/ Cursor' = Cursor + 1
                   \/ Cursor' = Cursor /\ Cursor = Len(ContentIndex)
       /\ -1 <= Cursor' /\ Cursor' <= Len(ContentIndex')]_vars
\* an info session read to its end and twice more: the cursor stopped at the length
C12_Witness ==
    /\ kind = "info" /\ Len(contents) >= 2
    /\ Len(log) = Len(contents) + 3
    /\ Cursor = Len(ContentIndex)
    /\ log[Len(log)].eof = eofnow

\* a step that served a getipath call, returning or raising
IsGetipath == call'.op = "getipath" /\ Len(log') = Len(log)

\* C13: getipath leaves the cursor and ContentIndex as they were (self.currentindex,
\* the members read from the WAR stream, self.contents / self.namen), whether the
\* address resolves or not and wherever the cursor stands.
C13_GetipathFrame ==
    [][IsGetipath =>
           /\ Cursor' = Cursor /\ currentindex' = currentindex /\ tarpos' = tarpos
           /\ ContentIndex' = ContentIndex /\ contents' = contents]_vars
\* a tar session part-way through its members has just served a getipath whose
\* address does not resolve
C13_Witness ==
    /\ kind = "tar" /\ call.op = "getipath" /\ ~ret.ok
    /\ 1 <= Cursor /\ Cursor < Len(ContentIndex)
    /\ Len(log) = Cursor + 1 /\ contents = source

\* C34 as stated: a getipath served while the handle is held and getnext still has
\* sub-documents to deliver does not release the handle, and the getnext that follows
\* returns what it would have returned without the getipath.
C34_GetipathKeepsHandle ==
    [][(/\ IsGetipath /\ kind \in HasHandle /\ handle
        /\ Len(ContentIndex) > 0 /\ Cursor < Len(ContentIndex)) =>
           /\ handle'
           /\ GetnextStep'.ret = GetnextStep.ret]_vars

\* C35 as stated: in an info or ics session getipath(a) returns ok only when a is,
\* byte for byte, an Address of ContentIndex, and then the address returned is a; for
\* any other a (negative, signed, padded, empty) it returns failure and raises nothing.
C35_ByteExactAddress ==
    (kind \in ByIndex /\ call.op = "getipath") =>
        /\ ret.ok => (call.arg \in Range(ContentIndex) /\ ret.ipath = call.arg)
        /\ call.arg \notin Range(ContentIndex) => (~ret.ok /\ ~ret.exc)

-----------------------------------------------------------------------------
(* Claims about the size ceiling of archive members *)

\* the address the last call fetched: the argument of getipath, the address getnext reached
Fetched == IF call.op = "getipath" THEN call.arg ELSE ret.ipath

\* C14: in a zip, tar or rar session with the archive held, fetching by getnext or
\* getipath a member whose declared size is strictly greater than maxmembersize
\* returns ok with empty content, logs the "too big" message, raises nothing and does
\* not read the member's data; a member whose declared size is at most maxmembersize
\* is read, without the message, and returned in full when its data can be read.
C14_SizeCeiling ==
    (/\ kind \in {"zip", "tar", "rar"} /\ call.op \in {"getnext", "getipath"}
     /\ call.held /\ Fetched \in Range(source)) =>
        /\ ~ret.exc
        /\ IF sizes[Fetched] > maxmembersize
           THEN ret.ok /\ ret.data = <<>> /\ effect.rclog /\ ~effect.read
           ELSE /\ effect.read /\ ~effect.rclog
                /\ Fetched \in store => ret.ok /\ ret.data = BytesOf(Fetched)
\* a zip session delivered a member exactly at the ceiling in full and then a member
\* over it, whose data cannot even be read, as ok and empty
C14_Witness ==
    /\ kind = "zip" /\ call.op = "getnext" /\ Len(log) = 3
    /\ log[2].ipath \in Range(source) /\ ret.ipath \in Range(source)
    /\ sizes[log[2].ipath] = maxmembersize /\ log[2].ok /\ log[2].data = BytesOf(log[2].ipath)
    /\ sizes[ret.ipath] > maxmembersize /\ ret.ipath \notin store
    /\ ret.ok /\ ret.data = <<>> /\ effect.rclog /\ ~effect.read

\* C33 as stated: also in a war or chm session, fetching by getnext or getipath a
\* stored sub-document whose declared size is strictly greater than maxmembersize
\* returns empty content, logs the warning and does not read the sub-document.
C33_CeilingEverywhere ==
    (/\ kind \in {"war", "chm"} /\ call.op \in {"getnext", "getipath"}
     /\ call.held /\ ~ret.exc /\ Fetched \in store /\ sizes[Fetched] > maxmembersize) =>
        ret.data = <<>> /\ effect.rclog /\ ~effect.read

-----------------------------------------------------------------------------
(* Claims about the karaoke conversion *)

\* the charset token in parentheses immediately before the extension of the file name
FilenameCharset == encodingfromfilename(kfile).v

\* C15 as stated: when the file name carries a parenthesized charset token immediately
\* before the extension and the token names a known codec, html_text decodes the title,
\* the author and the lyrics with that charset and does not call the detector.
C15_FilenameCharset ==
    (kout # <<>> /\ FilenameCharset \in KnownCodecs) =>
        /\ kout.encoding.v = FilenameCharset
        /\ kout.calls = <<>>
        /\ \A r \in {kout.title, kout.author, kout.lyrics} :
               r.ok /\ (r.text # <<>> => r.enc = FilenameCharset)

\* the detector's answers that were asked for
Asked == Range(kdetect)
\* the detector is unavailable, or none of its answers has a confidence above the
\* threshold, an answer without any charset included
NothingDetected ==
    ~kchardet \/ \A a \in Asked : a.exc \/ a.confidence <= ConfidenceFloor
\* the fallback: the locale's encoding, cp1252 when that is empty, an ASCII variant or
\* not a known codec
FixedFallback ==
    IF klocale \in {<<"None">>, <<"utf-8">>} THEN <<"utf-8">>
    ELSE IF klocale = <<"iso-8859-1">> THEN klocale
    ELSE <<"cp1252">>

\* C28 as stated: when the events of the stream were read and the detector is
\* unavailable, or gives no charset at all, or gives no answer with a confidence above
\* the threshold, html_text does not raise and applies the fallback encoding, which is
\* the locale's encoding or cp1252 and never an ASCII variant.
C28_FixedFallback ==
    (kout # <<>> /\ ~KarLoop(kevents, KarLocals).exc /\ NothingDetected) =>
        /\ ~kout.exc
        /\ kout.encoding = Str(FixedFallback)
        /\ ~HasAscii(kout.encoding.v)

\* the answer has a charset and a confidence strictly above the threshold
Confident(a) == ~a.exc /\ a.confidence > ConfidenceFloor

\* C29 as stated: when the text of the events holds a null byte and the detector runs,
\* the answer on the untruncated data is accepted only if its charset is of the wide
\* family and its confidence strictly above 0.6, and is then the encoding applied; in
\* every other case the detector is asked again on the null-truncated copy, whose
\* answer is applied only if its confidence is strictly above 0.6.
C29_NullDetection ==
    (kout # <<>> /\ kchardet /\ ~KarLoop(kevents, KarLocals).exc
         /\ KarLoop(kevents, KarLocals).hadnulls) =>
        /\ kout.calls # <<>> /\ kout.calls[1] = "lyricsN"
        /\ IF Confident(kdetect[1]) /\ kdetect[1].encoding \in acceptnullencodings
           THEN /\ kout.calls = <<"lyricsN">>
                /\ ~kout.exc => kout.encoding = Str(kdetect[1].encoding)
           ELSE /\ kout.calls = <<"lyricsN", "lyrics">>
                /\ ~kout.exc =>
                      kout.encoding = IF Confident(kdetect[2]) THEN Str(kdetect[2].encoding)
                                      ELSE defaultencoding

\* C39 as stated: html_text returns, and does not raise, on every sequence of text,
\* lyrics and track-name events, with or without title and author events, whenever
\* each answer the detector was asked for names a charset.
C39_EventsNeverRaise ==
    (kout # <<>> /\ \A a \in Asked : ~a.exc) => ~kout.exc

-----------------------------------------------------------------------------
(* Claims about the text normalisation *)

\* the content-type declarations of the text, in order
Declarations == SelectSeq(etext, LAMBDA p : p.k = "decl")

\* C16 as stated: a text whose content-type declaration names the charset ascii or
\* us-ascii, in any letter case, is decoded as windows-1252: fixencoding does not
\* raise, returns that charset, and every byte, those >= 0x80 included, is decoded to
\* the character windows-1252 gives it (the replacement character where it gives none).
C16_AsciiAs1252 ==
    (eout # <<>> /\ Len(Declarations) = 1 /\ IsAsciiName(Declarations[1].v)) =>
        /\ ~eout[1].exc
        /\ eout[1].charset = "windows-1252"
        /\ \A i \in 1..Len(etext) :
               etext[i].k = "byte" =>
                   eout[1].text[i] = [k |-> "char", v |-> DecodeByte(etext[i].v, "windows-1252")]

-----------------------------------------------------------------------------
(* Claims about catenation *)

\* the content between the body markers of a sub-document, <<>> when it has none
BodyOf(doc) ==
    LET m == Span(doc, "<body>", "</body>")
    IN IF m.found THEN SubSeq(doc, m.from + 1, m.to - 1) ELSE <<>>

RECURSIVE BodiesInOrder(_)
\* the body contents of the sub-documents at the given Addresses that can be fetched,
\* one after the other
BodiesInOrder(addrs) ==
    IF addrs = <<>> THEN <<>>
    ELSE (IF Resolves(Head(addrs)) THEN BodyOf(BytesOf(Head(addrs))) ELSE <<>>)
             \o BodiesInOrder(Tail(addrs))

\* the body region of the combined document: what follows its last opening body marker
BodyRegion(data) ==
    LET f == LastTok(data, "<body>")
    IN IF f = 0 THEN <<>> ELSE SubSeq(data, f + 1, Len(data))

\* the combined document the first getnext of a catenating session returned
Combined == log[1].data

\* C17 as stated: when some sub-document yields a body, the body region of the
\* combined document holds the body contents of the sub-documents in ContentIndex
\* order (X then Y give X followed by Y), followed by the closing markers.
C17_CatenationOrder ==
    (catenate /\ Len(log) >= 1 /\ ~log[1].exc /\ BodiesInOrder(ContentIndex) # <<>>) =>
        BodyRegion(Combined) = BodiesInOrder(ContentIndex) \o <<"</body>", "</html>">>

\* C18 as stated: when no sub-document yields a body (ContentIndex is empty, every
\* fetch fails, or no fetched document has a body element), the combined document is
\* empty and the getnext of the catenating session returns failure with eofnow.
C18_EmptyCatenation ==
    (catenate /\ Len(log) >= 1 /\ ~log[1].exc /\ BodiesInOrder(ContentIndex) = <<>>) =>
        ~log[1].ok /\ log[1].data = <<>> /\ log[1].eof = eofnow

\* C37 as stated: in a catenating session the first getnext, when it returns, returns
\* ok with the combined document, an empty ipath and eofnext, and releases the handle;
\* no getnext returns a sub-document's address; every further getnext returns failure
\* with eofnow and raises nothing.
C37_CatenateOnce ==
    (catenate /\ Len(log) >= 1) =>
        /\ ~log[1].exc =>
               /\ log[1].ok /\ log[1].data # <<>> /\ log[1].ipath = <<>>
               /\ log[1].eof = eofnext /\ released[1]
        /\ \A j \in 1..Len(log) : log[j].ipath = <<>>
        /\ \A j \in 2..Len(log) : ~log[j].exc /\ ~log[j].ok /\ log[j].eof = eofnow

\* how many times the token occurs in the data
Occurrences(data, tok) == Cardinality({i \in 1..Len(data) : data[i] = tok})

\* C38 as stated: in the combined document of a CHM the body content of each
\* sub-document that yields one occurs exactly once, and what precedes the body
\* region is one head, with the container's title, and no body or closing marker:
\* the body is opened once and closed once.
C38_BodiesOnce ==
    (kind = "chm" /\ catenate /\ Len(log) >= 1 /\ ~log[1].exc) =>
        /\ \A i \in 1..Len(ContentIndex) :
               LET a == ContentIndex[i]
               IN (Resolves(a) /\ BodyOf(BytesOf(a)) # <<>>) =>
                      Occurrences(Combined, a[Len(a)]) = 1
        /\ Occurrences(Combined, "<head>") <= 1
        /\ Occurrences(Combined, "<body>") <= 1
        /\ Occurrences(Combined, "</body>") = 1
        /\ Occurrences(Combined, "<title>") = 1 =>
               Combined[FirstTok(Combined, "<title>") + 1] = ChmTitle[1]

-----------------------------------------------------------------------------
(* Claims about openfile *)

\* the last request was openfile and it returned False / returned True
OpenfileFalse == call.op = "openfile" /\ (phase = "failed" \/ wphase = "failed")
OpenfileTrue == call.op = "openfile" /\ phase = "open"
\* the home address of the walked container, as openfile gives it to getfile
HomeAddr == IF home # <<>> /\ home[1] # "/" THEN <<"/">> \o home ELSE home
\* the container cannot be loaded; it has neither topics nor a home; its home
\* address yields no content
CannotLoad == filestate # "ok"
NoTopicsNoHome == wphase # "idle" /\ home = <<>>
NoHomeContent == wphase # "idle" /\ home # <<>> /\ HomeAddr \notin store

\* C19 as stated: openfile returns False, and does not raise, whenever the container
\* cannot be loaded, or has neither a catalog nor a home address, or its home address
\* yields no content; when it has returned True the cursor is -1 and the index built.
C19_OpenFails ==
    /\ (call.op = "openfile" /\ (CannotLoad \/ NoTopicsNoHome \/ NoHomeContent))
            => OpenfileFalse
    /\ OpenfileTrue => currentindex = -1 /\ wstack = <<>>

\* C36 as stated: when openfile has returned False no container handle is held,
\* whether the container could not be loaded or was loaded and then found to have
\* neither topics nor a home, or no home content.
C36_FailedOpenReleases ==
    OpenfileFalse => ~handle

-----------------------------------------------------------------------------
(* Claims about the self document *)

\* the tokens of data that are the body of a stored sub-document
SubDocumentBody(data) ==
    \E a \in Addr : BodyOf(BytesOf(a)) # <<>> /\
        \E i \in 1..Len(data) : data[i] \in Range(BodyOf(BytesOf(a)))

\* C20 as stated: the getnext that follows a successful openfile, in a session that
\* does not catenate, returns ok with the self document (empty ipath, no body of a
\* sub-document), moves the cursor from -1 to 0, and signals eofnext when the
\* container has no sub-document, noteof otherwise.
C20_SelfDocument ==
    [][(IsGetnext /\ call.op = "openfile" /\ ~catenate) =>
          /\ ret'.ok /\ ~ret'.exc /\ ret'.ipath = <<>>
          /\ ~SubDocumentBody(ret'.data)
          /\ currentindex = -1 /\ currentindex' = 0
          /\ ret'.eof = (IF ContentIndex = <<>> THEN eofnext ELSE noteof)]_vars

-----------------------------------------------------------------------------
(* Claims about the topics catalog *)

\* C21 as stated: every address the topics catalog puts into the contents list
\* resolved in the container when it was discovered, for plain and compound values.
C21_IndexedResolves ==
    (kind = "chm" /\ phase \in {"open", "closed"}) =>
        \A i \in 1..Len(contents) : ResolveObject(TRUE, contents[i])

\* the fields of the decoded value of a catalog record
Fields(p) == Split(urllib_unquote(p.value), ":")
\* the record may be kept: a param named Local with a non-empty value that is a plain
\* path, or a compound form of exactly four fields with a non-empty file segment and
\* a non-empty final segment
Keepable(p) ==
    /\ p.tag = "param" /\ p.name = Local /\ p.value # <<>>
    /\ \/ Len(Fields(p)) = 1
       \/ Len(Fields(p)) = 4 /\ Fields(p)[2] # <<>> /\ Fields(p)[4] # <<>>
\* the path a keepable record stands for: the plain value, or the trailing segment
PathOf(p) == IF Len(Fields(p)) = 1 THEN Fields(p)[1] ELSE Fields(p)[4]

\* C22: after a CHM open on a topics object, every address of the contents list comes
\* from a record that is a param named Local with a non-empty value, either a plain
\* path or a compound form of exactly four fields whose file segment and final
\* segment are non-empty, of which the final segment is taken; compound forms of two,
\* three or more than four fields yield nothing; no address contains '#'.
C22_KeptRecords ==
    (kind = "chm" /\ phase \in {"open", "closed"}) =>
        /\ \A i \in 1..Len(contents) :
              /\ ~Contains(contents[i], "#")
              /\ \E j \in 1..Len(source) :
                    /\ Keepable(source[j])
                    /\ contents[i] \in {PathOf(source[j]), <<"/">> \o PathOf(source[j])}
        /\ (\A j \in 1..Len(source) : ~Keepable(source[j])) => contents = <<>>

\* a catalog of a three-field and a four-field compound value: only the trailing
\* segment of the four-field one is in the contents list
C22_Witness ==
    /\ kind = "chm" /\ phase = "open"
    /\ Len(source) = 2
    /\ source[1].value = <<"v", ":", "f", ":", "/", "a">>
    /\ source[2].value = <<"v", ":", "f", ":", ":", "/", "a">>
    /\ contents = << <<"/", "a">> >>

-----------------------------------------------------------------------------
(* Claims about the link walk *)

\* the address a link of the page recorded at addr leads to; <<>> when the link is
\* not followed
TargetOf(addr, h) ==
    LET p == WalkerHrefPath(h)
    IN IF p = <<>> THEN <<>> ELSE WalkerNpath(dirname(addr), p)
\* the address the walk records for home, and the member it was fetched from
HomeRecorded == normpath(home)
PageKey(addr) == IF addr = HomeRecorded THEN HomeAddr ELSE addr
\* the links in the text of the page recorded at addr
AllLinksOf(addr) == pages[PageKey(addr)].links
\* the links of the page the walk can read: none when the page does not parse
LinksOf(addr) == IF pages[PageKey(addr)].parses THEN AllLinksOf(addr) ELSE <<>>

RECURSIVE PreOrder(_, _, _)
\* depth-first pre-order of first discovery: acc after the links of the page at addr
\* were gone through in order, each new target that fetches being appended and
\* explored before the next link is looked at
PreOrder(addr, links, acc) ==
    IF links = <<>> THEN acc
    ELSE LET t == TargetOf(addr, Head(links))
         IN IF t # <<>> /\ t \notin Range(acc) /\ t \in store
            THEN PreOrder(addr, Tail(links), PreOrder(t, LinksOf(t), Append(acc, t)))
            ELSE PreOrder(addr, Tail(links), acc)

RECURSIVE Closure(_, _)
\* the addresses reachable from those of S through links whose targets fetch,
\* readable = only the links of pages that parse are followed
Closure(S, readable) ==
    LET links(a) == IF readable THEN LinksOf(a) ELSE AllLinksOf(a)
        step == S \cup {t \in UNION {{TargetOf(a, h) : h \in Range(links(a))} : a \in S} :
                           t # <<>> /\ t \in store}
    IN IF step = S THEN S ELSE Closure(step, readable)

\* C23 as stated: after a CHM open by the link walk, the contents list is in depth-first
\* pre-order of first discovery, home first, and holds exactly the addresses reachable
\* from home through links whose targets fetch.
C23_ReachableByFetch ==
    wphase = "opened" =>
        /\ contents[1] = HomeRecorded
        /\ contents = PreOrder(HomeRecorded, LinksOf(HomeRecorded), <<HomeRecorded>>)
        /\ Range(contents) = Closure({HomeRecorded}, FALSE)

\* C23 amended: after a CHM open by the link walk, the contents list is the depth-first
\* pre-order of first discovery from home: home is first, a target that fetches is
\* followed by all that is newly reachable from it before the later links of the same
\* page are looked at, and the list holds exactly the addresses reachable from home
\* through the links of pages that parse, whose targets fetch.
C23_PreOrder ==
    wphase = "opened" =>
        /\ contents[1] = HomeRecorded
        /\ contents = PreOrder(HomeRecorded, LinksOf(HomeRecorded), <<HomeRecorded>>)
        /\ Range(contents) = Closure({HomeRecorded}, TRUE)

\* home links to /p then to /q, /p links to /r: /r comes before /q
C23_Witness ==
    /\ wphase = "opened"
    /\ contents = << <<"/", "h">>, <<"/", "p">>, <<"/", "r">>, <<"/", "q">> >>

\* C24: a link whose target does not fetch, or fetches and does not parse, does not
\* abort the walk: the walkers stay on the stack until the home page is done (no
\* exception escapes), no address of the list fails to fetch, and every link of every
\* parsed page of the list whose target fetches has its target in the list, the
\* links after a broken one and those of the enclosing pages included.
C24_BrokenLinkSkipped ==
    /\ wphase \notin {"raised", "overflow"}
    /\ wphase = "walking" => wstack # <<>>
    /\ wphase = "opened" =>
          /\ \A i \in 1..Len(contents) : contents[i] \in store
          /\ \A i \in 1..Len(contents) : \A h \in Range(LinksOf(contents[i])) :
                (TargetOf(contents[i], h) # <<>> /\ TargetOf(contents[i], h) \in store)
                    => TargetOf(contents[i], h) \in Range(contents)

\* home links to /p and then /q; /p links to the missing /x and then to /r, which
\* fetches and does not parse: /r is listed, and so is /q after it
C24_Witness ==
    /\ wphase = "opened"
    /\ contents = << <<"/", "h">>, <<"/", "p">>, <<"/", "r">>, <<"/", "q">> >>
    /\ pages[<<"/", "p">>].parses
    /\ [k \in 1..Len(pages[<<"/", "p">>].links) |-> pages[<<"/", "p">>].links[k].path]
           = << <<"/", "x">>, <<"/", "r">> >>
    /\ ~pages[<<"/", "r">>].parses

\* C25 as stated: after a successful CHM open every address of the contents list
\* begins with '/', and after a link walk the address recorded for home is the rooted
\* address the home document was fetched from, which is listed once.
C25_RootedAddresses ==
    (kind = "chm" /\ phase = "open") =>
        /\ \A i \in 1..Len(contents) : contents[i][1] = "/"
        /\ wphase = "opened" =>
              /\ contents[1] = HomeAddr
              /\ \A i \in 2..Len(contents) : contents[i] # HomeAddr

\* the path component of a link in the compound form "scheme::containerfile:path",
\* as urlparse leaves it in the path ":containerfile:path"
PathComponent(h) == Split(h.path, ":")[3]
IsCompound(h) == Len(Split(h.path, ":")) = 3

\* C26 as stated: after a link walk, a link of the home page in the compound form with
\* the scheme ms-its was reduced to its path component and followed when that path
\* resolves in the container, its target being in the contents list, and skipped
\* when it does not.
C26_CompoundFollowed ==
    wphase = "opened" =>
        \A h \in Range(LinksOf(HomeRecorded)) :
            (h.scheme = MsIts /\ IsCompound(h)) =>
                (PathComponent(h) \in Range(contents) <=> ResolveObject(TRUE, PathComponent(h)))

\* C27 as stated: fixencoding never raises, whatever bytes it is given and whatever
\* charset name they declare: every byte of the text comes out decoded, the invalid
\* ones replaced.
C27_NeverRaises ==
    eout # <<>> =>
        /\ ~eout[1].exc
        /\ Len(eout[1].text) = Len(etext)
        /\ \A i \in 1..Len(etext) : etext[i].k = "byte" => eout[1].text[i].k = "char"

====
